---- MODULE Spec2Model ----
(***************************************************************************)
(* A model of the GDE2Acsv ETL pipeline: main's entity loop (src/main.py)  *)
(* and DataTransformer (src/etl/transformer.py).                           *)
(*                                                                         *)
(* Cell values are strings.  Two cell values that are not Python strings   *)
(* are encoded as reserved strings: Null (pandas NaN / None) and IntZero   *)
(* (the integer 0 of a numeric column).  A table (pandas DataFrame) is a   *)
(* record [cols, rows]: the set of column names and the sequence of rows,  *)
(* each row a function from cols to cell values.                           *)
(***************************************************************************)
EXTENDS Integers, Sequences, FiniteSets, TLC

VARIABLES
    raw,                     \* main: raw_data, filename -> table
    cfg,                     \* main: the mapping document (mappings, global_config)
    school_year,             \* DataTransformer.school_year, as printed by an f-string
    homeroom_classes_df,     \* DataTransformer.homeroom_classes_df (HomeroomIndex)
    blended_class_map,       \* DataTransformer.blended_class_map: sequence of [k, v]
    blended_class_metadata,  \* DataTransformer.blended_class_metadata: sequence of [k, v]
    blended_teacher_map,     \* DataTransformer.blended_teacher_map: sequence of [k, v]
    pc,                      \* main: position in the entity loop, 1..5, then 6
    out,                     \* entity -> what the loop iteration produced
    calls,                   \* the entities handed to transform so far, in order
    now                      \* datetime.now() of the run: [year, month]

vars == <<raw, cfg, school_year, homeroom_classes_df, blended_class_map,
          blended_class_metadata, blended_teacher_map, pc, out, calls, now>>

index == <<homeroom_classes_df, blended_class_map, blended_class_metadata,
           blended_teacher_map>>

-----------------------------------------------------------------------------
(* Cell values                                                             *)

Null == "<NA>"
IntZero == "<int 0>"

\* The strings of the model that carry surrounding whitespace, with what
\* str.strip() makes of them.
Padded == (" T1" :> "T1") @@ (" 7" :> "7") @@ ("H1 " :> "H1") @@
          (" k " :> "k") @@ ("12 " :> "12") @@ (" " :> "")

notna(v) == v # Null

\* str(v) / Series.astype(str)
Str(v) == IF v = Null THEN "nan" ELSE IF v = IntZero THEN "0" ELSE v

Strip(s) == IF s \in DOMAIN Padded THEN Padded[s] ELSE s

\* Series.astype(str).str.strip()
StrStrip(v) == Strip(Str(v))

\* Python truthiness of a cell value: 0 and "" are false, NaN is true.
Truthy(v) == v # IntZero /\ v # ""

\* str.upper() on the labels of the model that have lower-case letters.
Lowered == ("k" :> "K") @@ ("kf" :> "KF") @@ ("nan" :> "NAN") @@
           ("pre-k" :> "PRE-K") @@ ("Other" :> "OTHER") @@ ("Grade 7" :> "GRADE 7")

Upper(s) == IF s \in DOMAIN Lowered THEN Lowered[s] ELSE s

CEDS_MAPPING ==
    ("INFANT/TODDLER" :> "IT") @@ ("PRESCHOOL" :> "PR") @@ ("PRE-K" :> "PK") @@
    ("PREKINDERGARTEN" :> "PK") @@ ("TK" :> "TK") @@
    ("TRANSITIONAL KINDERGARTEN" :> "TK") @@ ("KINDERGARTEN" :> "KG") @@
    ("K" :> "KG") @@ ("01" :> "01") @@ ("1" :> "01") @@ ("02" :> "02") @@
    ("2" :> "02") @@ ("03" :> "03") @@ ("3" :> "03") @@ ("04" :> "04") @@
    ("4" :> "04") @@ ("05" :> "05") @@ ("5" :> "05") @@ ("06" :> "06") @@
    ("6" :> "06") @@ ("07" :> "07") @@ ("7" :> "07") @@ ("08" :> "08") @@
    ("8" :> "08") @@ ("09" :> "09") @@ ("9" :> "09") @@ ("10" :> "10") @@
    ("11" :> "11") @@ ("12" :> "12") @@ ("13" :> "13") @@
    ("POSTSECONDARY" :> "PS") @@ ("UGRADED" :> "UG") @@ ("UNGRADED" :> "UG") @@
    ("UG" :> "UG") @@ ("OTHER" :> "Other") @@ ("EL" :> "KG") @@ ("KF" :> "KG")

\* A lookup of the value as it stands, neither trimmed nor in upper case
GradeLookupExact(grade_value) ==
    IF Str(grade_value) \in DOMAIN CEDS_MAPPING
    THEN CEDS_MAPPING[Str(grade_value)] ELSE "UG"

grade_to_ceds(grade_value) ==
    LET original == IF notna(grade_value)
                    THEN Upper(Strip(Str(grade_value))) ELSE ""
    IN  IF original \in DOMAIN CEDS_MAPPING THEN CEDS_MAPPING[original] ELSE "UG"

-----------------------------------------------------------------------------
(* Sequences and Python dicts (insertion-ordered sequences of [k, v])      *)

Range(s) == {s[i] : i \in DOMAIN s}

RECURSIVE Flatten(_)
Flatten(ss) == IF ss = <<>> THEN <<>> ELSE Head(ss) \o Flatten(Tail(ss))

\* The elements of s, each kept at its first occurrence under the key
\* (Series.unique, DataFrame.drop_duplicates(subset=...) with keep="first").
RECURSIVE DedupBy(_, _, _)
DedupBy(s, key(_), seen) ==
    IF s = <<>> THEN <<>>
    ELSE IF key(Head(s)) \in seen THEN DedupBy(Tail(s), key, seen)
         ELSE <<Head(s)>> \o DedupBy(Tail(s), key, seen \cup {key(Head(s))})

Unique(s) == LET id(x) == x IN DedupBy(s, id, {})

Keys(d) == {d[i].k : i \in DOMAIN d}

Get(d, key) == (CHOOSE i \in DOMAIN d : d[i].k = key /\
                   \A j \in DOMAIN d : d[j].k = key => j <= i)

\* d[key] = value: an existing key keeps its position and takes the value.
Put(d, key, value) ==
    IF key \in Keys(d)
    THEN [i \in DOMAIN d |-> IF d[i].k = key THEN [k |-> key, v |-> value] ELSE d[i]]
    ELSE Append(d, [k |-> key, v |-> value])

Lookup(d, key) == d[Get(d, key)].v

-----------------------------------------------------------------------------
(* Tables                                                                  *)

EmptyDF == [cols |-> {}, rows |-> <<>>]

\* DataFrame.empty
IsEmpty(df) == df.cols = {} \/ df.rows = <<>>

MapSeq(s, f(_)) == [i \in DOMAIN s |-> f(s[i])]

\* df[col] = df[col].apply(f), for a column of the table
ApplyCol(df, col, f(_)) ==
    [df EXCEPT !.rows = [i \in DOMAIN df.rows |->
                            [df.rows[i] EXCEPT ![col] = f(df.rows[i][col])]]]

\* if col in df.columns: df[col] = df[col].astype(str).str.strip()
NormCol(df, col) == IF col \in df.cols THEN ApplyCol(df, col, StrStrip) ELSE df

Filter(df, p(_)) == [df EXCEPT !.rows = SelectSeq(df.rows, p)]

\* df[cols]: the columns kept, rows in order
Project(df, cs) == [cols |-> cs, rows |-> [i \in DOMAIN df.rows |->
                                              [c \in cs |-> df.rows[i][c]]]]

\* df[col] = value for every row (a new or an existing column)
WithCol(df, col, f(_)) ==
    [cols |-> df.cols \cup {col},
     rows |-> [i \in DOMAIN df.rows |->
                  [c \in df.cols \cup {col} |->
                      IF c = col THEN f(df.rows[i]) ELSE df.rows[i][c]]]]

\* row.get(col, default)
RowGet(row, col, default) == IF col \in DOMAIN row THEN row[col] ELSE default

-----------------------------------------------------------------------------
(* Source roles                                                            *)

\* A source_files value with its Python type: a dict of role and filename
\* pairs, a list of items, or anything else
Dict(pairs) == [shape |-> "dict", items |-> pairs]

List(items) == [shape |-> "list", items |-> items]

Scalar(v) == [shape |-> "str", items |-> <<v>>]

\* The items of a list: a dict with the keys given, or a str
Entry(keys, role, file) == [kind |-> "dict", keys |-> keys, role |-> role, file |-> file]

Name(file) == [kind |-> "str", keys |-> {}, role |-> "", file |-> file]

\* all(isinstance(item, kind) for item in source_config)
AllOfKind(items, kind) == \A i \in DOMAIN items : items[i].kind = kind

legacy_roles == <<"student_schedule", "course_info", "staff_info", "student_demographic">>

\* normalized[item["role"]] = item["file"] for the items that have both keys
RECURSIVE FromEntries(_, _)
FromEntries(items, normalized) ==
    IF items = <<>> THEN normalized
    ELSE FromEntries(Tail(items),
                     IF {"role", "file"} \subseteq Head(items).keys
                     THEN Put(normalized, Head(items).role, Head(items).file)
                     ELSE normalized)

\* A normalisation that knows mappings only
NormalizeDictOnly(source_config) ==
    IF source_config.shape = "dict" THEN source_config.items ELSE <<>>

normalize_source_config(source_config) ==
    IF source_config.shape = "dict" THEN source_config.items
    ELSE IF source_config.shape = "list"
    THEN IF AllOfKind(source_config.items, "dict")
         THEN FromEntries(source_config.items, <<>>)
         ELSE IF AllOfKind(source_config.items, "str")
         THEN [i \in {j \in DOMAIN source_config.items : j <= Len(legacy_roles)} |->
                  [k |-> legacy_roles[i], v |-> source_config.items[i].file]]
         ELSE <<>>
    ELSE <<>>

get_source_file(raw_data, source_config, role) ==
    LET normalized_sources == normalize_source_config(source_config)
    IN  IF role \in Keys(normalized_sources) /\
           Lookup(normalized_sources, role) \in DOMAIN raw_data
        THEN raw_data[Lookup(normalized_sources, role)]
        ELSE EmptyDF

\* f"{year + 1}" for the school years of the model
NextYear == ("2024" :> "2025") @@ ("2025" :> "2026") @@ ("2023" :> "2024")

\* set_school_year: academic_start and academic_end
academic_start(year) == year \o "-08-25"

academic_end(year) == NextYear[year] \o "-07-25"

generate_class_id(row, mt_id_col, year) ==
    LET mt_id == RowGet(row, mt_id_col, "")
    IN  IF Truthy(mt_id) THEN Str(mt_id) \o "_" \o year ELSE mt_id

-----------------------------------------------------------------------------
(* Blended-class detection                                                 *)

\* The strings that occur as session-key components, in ASCII order of their
\* first differing character; "" stands where the separator "_" follows it.
Collation == <<"0", "1", "2", "H1", "M1", "M2", "M3", "Mon", "S1", "S2",
               "T1", "T2", "", "nan">>

Rank(s) == CHOOSE i \in DOMAIN Collation : Collation[i] = s

\* p < q for two component lists of one length, as the joined strings compare
RECURSIVE PartsLess(_, _)
PartsLess(p, q) ==
    IF p = <<>> THEN FALSE
    ELSE IF Head(p) = Head(q) THEN PartsLess(Tail(p), Tail(q))
    ELSE IF Len(p) = 1 /\ "" \in {Head(p), Head(q)} THEN Head(p) = ""
    ELSE Rank(Head(p)) < Rank(Head(q))

RECURSIVE JoinWith(_, _)
JoinWith(parts, sep) ==
    IF parts = <<>> THEN ""
    ELSE IF Len(parts) = 1 THEN Head(parts)
    ELSE Head(parts) \o sep \o JoinWith(Tail(parts), sep)

session_components(teacher_id_col) ==
    <<"school number", teacher_id_col, "term", "semester", "day", "period">>

available_components(df, teacher_id_col) ==
    SelectSeq(session_components(teacher_id_col), LAMBDA c : c \in df.cols)

\* fillna('').astype(str)
FillStr(v) == IF v = Null THEN "" ELSE Str(v)

\* working_records: every available session component filled and cast
RECURSIVE FillComponents(_, _)
FillComponents(df, comps) ==
    IF comps = <<>> THEN df
    ELSE FillComponents(ApplyCol(df, Head(comps), FillStr), Tail(comps))

\* The components of a working row's session key, in order.
KeyParts(row, teacher_id_col) ==
    LET available == SelectSeq(session_components(teacher_id_col),
                               LAMBDA c : c \in DOMAIN row)
    IN  [i \in DOMAIN available |-> row[available[i]]]

\* working_records[available_components].agg('_'.join, axis=1)
session_key(row, teacher_id_col) == JoinWith(KeyParts(row, teacher_id_col), "_")

\* pd.Series(grade_map_df.grade.values, index=...).to_dict(): the grade of the
\* last schedule row of each session id among the rows with a grade.
mtid_to_grade_map(schedule) ==
    IF {"master timetable id", "grade"} \subseteq schedule.cols
    THEN LET graded == SelectSeq(schedule.rows, LAMBDA r : notna(r["grade"]))
             last(m) == CHOOSE i \in DOMAIN graded :
                            /\ graded[i]["master timetable id"] = m
                            /\ \A j \in DOMAIN graded :
                                 graded[j]["master timetable id"] = m => j <= i
         IN  [m \in {graded[i]["master timetable id"] : i \in DOMAIN graded} |->
                 graded[last(m)]["grade"]]
    ELSE <<>>

\* The CEDS grades the code collects for a group: a session id without an
\* entry, or with a false value, adds nothing.
GroupGrades(group, grade_map) ==
    {grade_to_ceds(grade_map[group[i]["master timetable id"]]) :
        i \in {j \in DOMAIN group :
                  /\ group[j]["master timetable id"] \in DOMAIN grade_map
                  /\ Truthy(grade_map[group[j]["master timetable id"]])}}

_validate_blended_class(session_group, grade_map) ==
    IF Len(session_group) <= 1 THEN FALSE
    ELSE Cardinality(GroupGrades(session_group, grade_map)) >= 2

\* The CEDS codes in the one order both of the code's sorts give them.
CedsOrder == <<"01", "02", "03", "04", "05", "06", "07", "08", "09", "10",
               "11", "12", "13", "IT", "KG", "Other", "PK", "PR", "PS", "TK",
               "UG">>

_get_blended_grade_range(session_group, grade_map) ==
    JoinWith(SelectSeq(CedsOrder,
                       LAMBDA g : g \in GroupGrades(session_group, grade_map)),
             "/")

-----------------------------------------------------------------------------
(* Class names, as sequences of characters                                 *)

\* max_len of _truncate_name
MaxNameLen == 100

\* The text made of words of the letter a, one per length of the pattern,
\* with single spaces between them, and its characters
RECURSIVE Repeat(_, _)
Repeat(s, n) ==
    IF n = 0 THEN ""
    ELSE IF n = 1 THEN s
    ELSE Repeat(s, n \div 2) \o Repeat(s, n - (n \div 2))

Text(pattern) == JoinWith([i \in DOMAIN pattern |-> Repeat("a", pattern[i])], " ")

RECURSIVE PatternChars(_)
PatternChars(pattern) ==
    IF pattern = <<>> THEN <<>>
    ELSE [i \in 1..Head(pattern) |-> "a"] \o
         (IF Len(pattern) = 1 THEN <<>> ELSE <<" ">> \o PatternChars(Tail(pattern)))

\* The long texts of the model, by their word lengths
TextPatterns ==
    {<<n>> : n \in {90, 95, 96, 97, 98, 105}} \cup
    {<<m, n>> : m \in {1, 40, 95, 96, 97}, n \in {3, 60}}

\* The characters of the other strings that occur in names
Spelling ==
    ("" :> <<>>) @@
    ("2024" :> <<"2", "0", "2", "4">>) @@
    ("2023" :> <<"2", "0", "2", "3">>) @@
    ("2025" :> <<"2", "0", "2", "5">>) @@
    ("Math" :> <<"M", "a", "t", "h">>) @@
    ("Unknown Course" :> <<"U", "n", "k", "n", "o", "w", "n", " ", "C", "o", "u", "r", "s", "e">>) @@
    ("nan" :> <<"n", "a", "n">>) @@
    ("Tan" :> <<"T", "a", "n">>) @@
    ("Ms T" :> <<"M", "s", " ", "T">>) @@
    ("H1" :> <<"H", "1">>) @@
    ("H1 " :> <<"H", "1", " ">>) @@
    ("Unassigned Homeroom" :> <<"U", "n", "a", "s", "s", "i", "g", "n", "e", "d", " ", "H", "o", "m", "e", "r", "o", "o", "m">>) @@
    ("Blended Class" :> <<"B", "l", "e", "n", "d", "e", "d", " ", "C", "l", "a", "s", "s">>) @@
    ("A" :> <<"A">>) @@
    ("01" :> <<"0", "1">>) @@
    ("02" :> <<"0", "2">>) @@
    ("03" :> <<"0", "3">>) @@
    ("04" :> <<"0", "4">>) @@
    ("05" :> <<"0", "5">>) @@
    ("06" :> <<"0", "6">>) @@
    ("07" :> <<"0", "7">>) @@
    ("08" :> <<"0", "8">>) @@
    ("09" :> <<"0", "9">>) @@
    ("10" :> <<"1", "0">>) @@
    ("11" :> <<"1", "1">>) @@
    ("12" :> <<"1", "2">>) @@
    ("13" :> <<"1", "3">>) @@
    ("IT" :> <<"I", "T">>) @@
    ("KG" :> <<"K", "G">>) @@
    ("Other" :> <<"O", "t", "h", "e", "r">>) @@
    ("PK" :> <<"P", "K">>) @@
    ("PR" :> <<"P", "R">>) @@
    ("PS" :> <<"P", "S">>) @@
    ("TK" :> <<"T", "K">>) @@
    ("UG" :> <<"U", "G">>)

\* list(s): the characters of a string of the model
Chars(s) ==
    IF s \in DOMAIN Spelling THEN Spelling[s]
    ELSE PatternChars(CHOOSE p \in TextPatterns : Text(p) = s)

\* " ".join(parts) for parts given by their characters
RECURSIVE JoinChars(_, _)
JoinChars(parts, sep) ==
    IF parts = <<>> THEN <<>>
    ELSE IF Len(parts) = 1 THEN Head(parts)
    ELSE Head(parts) \o sep \o JoinChars(Tail(parts), sep)

\* The characters of each grade code of a sequence
MapCodes(codes) == [i \in DOMAIN codes |-> Chars(codes[i])]

\* The characters of _get_blended_grade_range's string
grade_range_chars(session_group, grade_map) ==
    JoinChars(MapCodes(SelectSeq(CedsOrder,
                  LAMBDA g : g \in GroupGrades(session_group, grade_map))),
              <<"/">>)

\* str.strip() on characters
RECURSIVE StripChars(_)
StripChars(cs) ==
    IF cs = <<>> THEN cs
    ELSE IF Head(cs) = " " THEN StripChars(Tail(cs))
    ELSE IF cs[Len(cs)] = " " THEN StripChars(SubSeq(cs, 1, Len(cs) - 1))
    ELSE cs

\* A truncation that always cuts after trunc_len characters
HardTruncate(name) ==
    IF Len(name) <= MaxNameLen THEN name
    ELSE SubSeq(name, 1, MaxNameLen - 3) \o <<".", ".", ".">>

\* _truncate_name(name, max_len=100)
_truncate_name(name) ==
    LET trunc_len == MaxNameLen - 3
        spaces == {i \in 1..trunc_len : i <= Len(name) /\ name[i] = " "}
        last_space == CHOOSE i \in spaces : \A j \in spaces : j <= i
    IN  IF Len(name) <= MaxNameLen THEN name
        ELSE IF spaces # {}
        THEN SubSeq(name, 1, last_space - 1) \o <<".", ".", ".">>
        ELSE SubSeq(name, 1, trunc_len) \o <<".", ".", ".">>

\* generate_class_name before truncation, for a Name directive that names no
\* columns: the teacher's last name, the course title, the section, the year
class_full_name(row, year) ==
    LET course_title == StripChars(Chars(Str(RowGet(row, "title", "Unknown Course"))))
        last == StripChars(Chars(Str(RowGet(row, "last name", ""))))
        teacher_last == IF last = Chars("nan") THEN <<>> ELSE last
        section == StripChars(Chars(Str(RowGet(row, "section letter", ""))))
        titled == IF section = <<>> THEN course_title
                  ELSE course_title \o <<" ", "(">> \o section \o <<")">>
    IN  StripChars(JoinChars((IF teacher_last = <<>> THEN <<>> ELSE <<teacher_last>>)
                             \o <<titled, Chars(year)>>, <<" ">>))

generate_class_name(row, year) == _truncate_name(class_full_name(row, year))

\* create_homeroom_name(row, homeroom_col, teacher_name_col, year)
create_homeroom_name(row, homeroom_col, year) ==
    LET homeroom == row[homeroom_col]
        teacher == row["teacher name"]
        has_homeroom == notna(homeroom) /\ StrStrip(homeroom) # ""
        has_teacher == notna(teacher) /\ StrStrip(teacher) # ""
    IN  JoinChars(<<IF has_homeroom THEN Chars(Str(homeroom))
                    ELSE Chars("Unassigned Homeroom")>> \o
                  (IF has_teacher THEN <<<<"-", " ">> \o Chars(Str(teacher))>>
                   ELSE <<>>) \o
                  <<<<"(">> \o Chars(year) \o <<")">>>>, <<" ">>)

\* The characters of the model in ASCII order
Ascii ==
    <<" ", "(", ")", "-", ".", "/", "0", "1", "2", "3", "4", "5", "6", "7",
    "8", "9", "A", "B", "C", "D", "E", "F", "G", "H", "I", "J", "K", "L",
    "M", "N", "O", "P", "Q", "R", "S", "T", "U", "V", "W", "X", "Y", "Z",
    "_", "a", "b", "c", "d", "e", "f", "g", "h", "i", "j", "k", "l", "m",
    "n", "o", "p", "q", "r", "s", "t", "u", "v", "w", "x", "y", "z">>

CharRank(ch) == CHOOSE i \in DOMAIN Ascii : Ascii[i] = ch

\* a < b as Python compares two strings
RECURSIVE CharsLess(_, _)
CharsLess(a, b) ==
    IF b = <<>> THEN FALSE
    ELSE IF a = <<>> THEN TRUE
    ELSE IF Head(a) = Head(b) THEN CharsLess(Tail(a), Tail(b))
    ELSE CharRank(Head(a)) < CharRank(Head(b))

\* sorted(list(S)) for a set of strings given by their characters
RECURSIVE SortedChars(_)
SortedChars(S) ==
    IF S = {} THEN <<>>
    ELSE LET least == CHOOSE a \in S : \A b \in S : ~CharsLess(b, a)
         IN  <<least>> \o SortedChars(S \ {least})

\* course_code_to_title_map: the title of the first course_info row of each
\* course code, among the rows that have both
course_code_to_title_map(course_info_df) ==
    IF {"course code", "title"} \subseteq course_info_df.cols
    THEN LET both == SelectSeq(course_info_df.rows,
                         LAMBDA r : notna(r["course code"]) /\ notna(r["title"]))
             first(code) == CHOOSE i \in DOMAIN both :
                                /\ both[i]["course code"] = code
                                /\ \A j \in DOMAIN both :
                                       both[j]["course code"] = code => i <= j
         IN  [code \in {both[i]["course code"] : i \in DOMAIN both} |->
                 both[first(code)]["title"]]
    ELSE <<>>

\* _create_blended_class_name for a Name directive that names no columns;
\* the group has a "course code" column
_create_blended_class_name(session_group, grade_str, title_map, year) ==
    LET teacher_name == RowGet(session_group[1], "teacher name", Null)
        named == IF notna(teacher_name) /\ StrStrip(teacher_name) # ""
                 THEN <<Chars(StrStrip(teacher_name))>> ELSE <<>>
        unique_course_titles ==
            SortedChars({Chars(IF session_group[i]["course code"] \in DOMAIN title_map
                               THEN Str(title_map[session_group[i]["course code"]])
                               ELSE "Unknown Course") : i \in DOMAIN session_group})
        graded == IF grade_str = <<>> THEN <<>>
                  ELSE <<<<"(">> \o grade_str \o <<")">>>>
        name_parts == named \o <<JoinChars(unique_course_titles, <<" ", "/", " ">>)>>
                      \o graded \o <<Chars(year)>>
        full_name == StripChars(JoinChars(name_parts, <<" ">>))
    IN  _truncate_name(
            IF full_name = <<>> \/ Len(name_parts) <= 1
            THEN StripChars(Chars("Blended Class") \o <<" ">> \o grade_str \o
                            <<" ">> \o Chars(year))
            ELSE full_name)

RECURSIVE MapMembers(_, _, _)
MapMembersKeepFirst(d, ids, blended_id) ==
    IF ids = <<>> THEN d
    ELSE IF Head(ids) \in Keys(d) THEN MapMembers(d, Tail(ids), blended_id)
    ELSE MapMembers(Put(d, Head(ids), blended_id), Tail(ids), blended_id)

\* for mt_id in all_mt_ids: self.blended_class_map[mt_id] = blended_id
MapMembers(d, ids, blended_id) ==
    IF ids = <<>> THEN d
    ELSE MapMembers(Put(d, Head(ids), blended_id), Tail(ids), blended_id)

\* The teacher ids of the rows sharing a session id of the group, one entry
\* per row
TeachersPerRow(working, all_mt_ids, teacher_id_col) ==
    LET sharing == SelectSeq(working,
                       LAMBDA r : r["master timetable id"] \in Range(all_mt_ids))
    IN  [i \in DOMAIN sharing |-> sharing[i][teacher_id_col]]

\* working_records[working_records['master timetable id'].isin(all_mt_ids)]
\*     [teacher_id_col].unique().tolist()
all_teachers(working, all_mt_ids, teacher_id_col) ==
    LET sharing == SelectSeq(working,
                       LAMBDA r : r["master timetable id"] \in Range(all_mt_ids))
    IN  Unique([i \in DOMAIN sharing |-> sharing[i][teacher_id_col]])

\* The loop over the groups, in ascending key order: st is the BlendedIndex
\* [map, teachers, meta] so far, working the rows of working_records.  The
\* result is [raised, st]: _create_blended_class_name reads the group's
\* 'course code' column and raises KeyError without it, after the map and the
\* roster of the group are written and before its metadata is.
RECURSIVE DetectGroups(_, _, _, _, _, _, _)
DetectGroups(keys, working, grade_map, title_map, teacher_id_col, year, st) ==
    IF keys = <<>> THEN [raised |-> FALSE, st |-> st]
    ELSE
      LET key == Head(keys)
          group == SelectSeq(working,
                       LAMBDA r : session_key(r, teacher_id_col) = key)
          blended_id == "BLENDED_" \o key \o "_" \o year
          all_mt_ids == [i \in DOMAIN group |-> group[i]["master timetable id"]]
          written == [st EXCEPT !.map = MapMembers(st.map, all_mt_ids, blended_id),
                                !.teachers = Put(st.teachers, blended_id,
                                                 all_teachers(working, all_mt_ids,
                                                              teacher_id_col))]
          recorded ==
              [written EXCEPT !.meta = Put(st.meta, blended_id,
                  [Name |-> _create_blended_class_name(group,
                               grade_range_chars(group, grade_map), title_map,
                               year),
                   Grade |-> _get_blended_grade_range(group, grade_map),
                   SchoolID |-> IF "school number" \in DOMAIN group[1]
                                THEN group[1]["school number"] ELSE "",
                   Original_MT_IDs |-> all_mt_ids])]
      IN  IF ~(Len(group) > 1 /\ _validate_blended_class(group, grade_map))
          THEN DetectGroups(Tail(keys), working, grade_map, title_map,
                            teacher_id_col, year, st)
          ELSE IF "course code" \notin DOMAIN group[1]
          THEN [raised |-> TRUE, st |-> written]
          ELSE DetectGroups(Tail(keys), working, grade_map, title_map,
                            teacher_id_col, year, recorded)

\* The session keys of working_records in the order groupby visits them
GroupKeys(working, teacher_id_col) ==
    LET keyed == DedupBy(working, LAMBDA r : session_key(r, teacher_id_col), {})
        sorted == SortSeq(keyed, LAMBDA a, b :
                     PartsLess(KeyParts(a, teacher_id_col), KeyParts(b, teacher_id_col)))
    IN  [i \in DOMAIN sorted |-> session_key(sorted[i], teacher_id_col)]

\* _detect_blended_classes: [raised, st], st the BlendedIndex after the call.
_detect_blended_classes(class_info_df, sources, raw_data, teacher_id_col, year, st) ==
    LET schedule0 == get_source_file(raw_data, sources, "student_schedule")
        course_info_df == get_source_file(raw_data, sources, "course_info")
        working == FillComponents(class_info_df,
                       available_components(class_info_df, teacher_id_col)).rows
    IN  IF IsEmpty(class_info_df) \/ IsEmpty(schedule0) \/ IsEmpty(course_info_df)
        THEN [raised |-> FALSE, st |-> st]
        ELSE IF ~({teacher_id_col, "master timetable id"} \subseteq class_info_df.cols)
        THEN [raised |-> FALSE, st |-> st]
        ELSE DetectGroups(GroupKeys(working, teacher_id_col), working,
                          mtid_to_grade_map(NormCol(schedule0, "master timetable id")),
                          course_code_to_title_map(course_info_df),
                          teacher_id_col, year, st)

-----------------------------------------------------------------------------
(* transform: Classes                                                      *)

\* pd.concat(frames, ignore_index=True): the union of the columns, a frame's
\* missing columns null.
Concat(frames) ==
    LET cs == UNION {frames[i].cols : i \in DOMAIN frames}
        widen(df) == [i \in DOMAIN df.rows |->
                         [c \in cs |-> RowGet(df.rows[i], c, Null)]]
    IN  [cols |-> cs, rows |-> Flatten([i \in DOMAIN frames |-> widen(frames[i])])]

\* df.drop_duplicates(subset=cs): the first row of each combination
DropDuplicates(df, cs) ==
    [df EXCEPT !.rows = DedupBy(df.rows, LAMBDA r : [c \in cs |-> r[c]], {})]

\* A left join in which a null key matches no row
MergeNotNull(left, right, on) ==
    LET overlap == (left.cols \cap right.cols) \ on
        lname(col) == IF col \in overlap THEN col \o "_x" ELSE col
        rname(col) == IF col \in overlap THEN col \o "_y" ELSE col
        lcols == {lname(col) : col \in left.cols}
        rcols == {rname(col) : col \in right.cols \ on}
        lpart(l) == [k \in lcols |-> l[CHOOSE col \in left.cols : lname(col) = k]]
        rpart(r) == [k \in rcols |->
                        r[CHOOSE col \in right.cols \ on : rname(col) = k]]
        nulls == [k \in rcols |-> Null]
        matches(l) == SelectSeq(right.rows,
                                LAMBDA r : \A k \in on : l[k] = r[k] /\ l[k] # Null)
        joined(l) == IF matches(l) = <<>> THEN <<lpart(l) @@ nulls>>
                     ELSE [i \in DOMAIN matches(l) |-> lpart(l) @@ rpart(matches(l)[i])]
    IN  [cols |-> lcols \cup rcols,
         rows |-> Flatten([i \in DOMAIN left.rows |-> joined(left.rows[i])])]

\* left.merge(right, on=on, how="left"): a left row once per matching right
\* row (null keys match each other), else once with the right columns null;
\* a column of both frames outside `on` is renamed with "_x" / "_y".
Merge(left, right, on) ==
    LET overlap == (left.cols \cap right.cols) \ on
        lname(col) == IF col \in overlap THEN col \o "_x" ELSE col
        rname(col) == IF col \in overlap THEN col \o "_y" ELSE col
        lcols == {lname(col) : col \in left.cols}
        rcols == {rname(col) : col \in right.cols \ on}
        lpart(l) == [k \in lcols |-> l[CHOOSE col \in left.cols : lname(col) = k]]
        rpart(r) == [k \in rcols |->
                        r[CHOOSE col \in right.cols \ on : rname(col) = k]]
        nulls == [k \in rcols |-> Null]
        matches(l) == SelectSeq(right.rows, LAMBDA r : \A k \in on : l[k] = r[k])
        joined(l) == IF matches(l) = <<>> THEN <<lpart(l) @@ nulls>>
                     ELSE [i \in DOMAIN matches(l) |-> lpart(l) @@ rpart(matches(l)[i])]
    IN  [cols |-> lcols \cup rcols,
         rows |-> Flatten([i \in DOMAIN left.rows |-> joined(left.rows[i])])]

\* df.rename(columns={old: new})
RenameCol(df, old, new) ==
    IF old \in df.cols
    THEN [cols |-> (df.cols \ {old}) \cup {new},
          rows |-> [i \in DOMAIN df.rows |->
                       [k \in (df.cols \ {old}) \cup {new} |->
                           IF k = new THEN df.rows[i][old] ELSE df.rows[i][k]]]]
    ELSE df

\* The columns of a Classes row that this model carries.
ClassCols == {"Class ID", "Name", "Grade", "School ID", "Start Date", "End Date"}

\* homeroom_output: a column for every key of the field map, null where
\* homeroom_classes has no such column
ProjectFill(df, keys) ==
    [cols |-> keys,
     rows |-> [i \in DOMAIN df.rows |->
                  [k \in keys |-> IF k \in df.cols THEN df.rows[i][k] ELSE Null]]]

\* The homeroom classes of the homeroom students, and what the block leaves:
\* [raised, frames, hidx].  create_homeroom_name reads row["teacher name"]
\* and raises KeyError without the column, before the index is written.
HomeroomFrames(homeroom_students, c, year, hidx) ==
    LET teacher_id_col == c.gc_staff_col
        grade_col == c.gc_grade_col
        homeroom_col == c.gc_homeroom_col
        dedup_cols == {"school number", homeroom_col} \cup
                      (IF teacher_id_col \in homeroom_students.cols
                       THEN {teacher_id_col} ELSE {})
        index_cols == dedup_cols \cup {"Class ID"}
        out_cols == Range(c.classes_fields)
        class_id(r) == Str(r["school number"]) \o "_" \o
                       Str(IF r[homeroom_col] = Null
                           THEN "UnassignedHomeroom" ELSE r[homeroom_col])
                       \o "_" \o year
        identified ==
            WithCol(WithCol(WithCol(DropDuplicates(homeroom_students, dedup_cols),
                                    "Class ID", class_id),
                            "Grade", LAMBDA r : r[grade_col]),
                    "School ID", LAMBDA r : r["school number"])
        Dated(classes) ==
            WithCol(WithCol(classes, "Start Date", LAMBDA r : academic_start(year)),
                    "End Date", LAMBDA r : academic_end(year))
        Named(classes) ==
            Dated(WithCol(classes, "Name",
                          LAMBDA r : create_homeroom_name(r, homeroom_col, year)))
        Written(classes) ==
            [raised |-> FALSE, frames |-> <<ProjectFill(classes, out_cols)>>,
             hidx |-> Project(classes, index_cols)]
    IN  IF IsEmpty(homeroom_students)
        THEN [raised |-> FALSE, frames |-> <<>>, hidx |-> hidx]
        ELSE IF ~({"school number", homeroom_col} \subseteq homeroom_students.cols)
        THEN [raised |-> TRUE, frames |-> <<>>, hidx |-> hidx]
        ELSE IF "teacher name" \notin homeroom_students.cols
        THEN [raised |-> TRUE, frames |-> <<>>, hidx |-> hidx]
        ELSE Written(Named(identified))

\* Homeroom synthesis (the student_demographic block): [raised, frames, hidx]
HomeroomClasses(raw_data, c, year, hidx) ==
    LET demo0 == get_source_file(raw_data, c.src["Classes"], "student_demographic")
    IN  IF IsEmpty(demo0)
        THEN [raised |-> FALSE, frames |-> <<>>, hidx |-> hidx]
        ELSE IF c.gc_grade_col \notin demo0.cols
        THEN [raised |-> TRUE, frames |-> <<>>, hidx |-> hidx]
        ELSE HomeroomFrames(
                 Filter(ApplyCol(NormCol(demo0, c.gc_staff_col), c.gc_grade_col,
                                 grade_to_ceds),
                        LAMBDA r : r[c.gc_grade_col] \in c.homeroom_grades),
                 c, year, hidx)

\* A Class ID that never looks the session id up in the BlendedIndex
SubjectClassIdFallback(row, id_col, bmap, year) == generate_class_id(row, id_col, year)

\* merged_df['Class ID'] of one row: the BlendedIndex entry of the row's
\* session id, else the fallback id.
SubjectClassId(row, id_col, bmap, year) ==
    IF id_col \in DOMAIN row /\ StrStrip(row[id_col]) \in Keys(bmap)
    THEN Lookup(bmap, StrStrip(row[id_col]))
    ELSE generate_class_id(row, id_col, year)

\* schedule_df[~schedule_df["grade_ceds"].isin(homeroom_grades)], the id
\* columns normalised
NonHomeroom(schedule0, teacher_id_col, homeroom_grades) ==
    Filter(NormCol(NormCol(schedule0, teacher_id_col), "master timetable id"),
           LAMBDA r : grade_to_ceds(r["grade"]) \notin homeroom_grades)

\* A course merge that indexes course_df without asking whether it is empty
CourseMergeUnguarded(non_homeroom_df, course_df) ==
    [raised |-> ~({"school number", "course code", "title"} \subseteq course_df.cols),
     df |-> non_homeroom_df]

\* The left join of the course titles: [raised, df]
CourseMerge(non_homeroom_df, course_df) ==
    LET on == {"school number", "course code"}
        Joined(left) ==
            IF on \cup {"title"} \subseteq course_df.cols /\ on \subseteq left.cols
            THEN [raised |-> FALSE,
                  df |-> Merge(left, Project(course_df, on \cup {"title"}), on)]
            ELSE [raised |-> TRUE, df |-> left]
    IN  IF IsEmpty(course_df) THEN [raised |-> FALSE, df |-> non_homeroom_df]
        ELSE Joined(RenameCol(non_homeroom_df, "district course code", "course code"))

\* The left join of the teachers' last names: [raised, df]
StaffMerge(merged_df, staff_df, teacher_id_col) ==
    IF IsEmpty(staff_df) THEN [raised |-> FALSE, df |-> merged_df]
    ELSE IF {teacher_id_col, "last name"} \subseteq staff_df.cols /\
            teacher_id_col \in merged_df.cols
    THEN [raised |-> FALSE,
          df |-> Merge(merged_df,
                       Project(NormCol(staff_df, teacher_id_col),
                               {teacher_id_col, "last name"}),
                       {teacher_id_col})]
    ELSE [raised |-> TRUE, df |-> merged_df]

\* A Grade that is the row's normalized grade for blended classes as well
GradeOfRow(class_id, row, c, st) ==
    IF c.classes_grade_col # ""
    THEN grade_to_ceds(RowGet(row, c.classes_grade_col, ""))
    ELSE ""

\* get_grade(row), with the row's Class ID
get_grade(class_id, row, c, st) ==
    IF class_id \in Keys(st.meta) THEN ""
    ELSE IF c.classes_grade_col # ""
         THEN grade_to_ceds(RowGet(row, c.classes_grade_col, ""))
         ELSE ""

\* subject_output, from the joined rows
SubjectOutput(joined, c, year, st) ==
    LET get_class_name(class_id, row) ==
            IF class_id \in Keys(st.meta) THEN Lookup(st.meta, class_id).Name
            ELSE generate_class_name(row, year)
        output(class_id, row) ==
            [f \in ClassCols |->
                CASE f = "Class ID" -> class_id
                  [] f = "Name" -> get_class_name(class_id, row)
                  [] f = "Grade" -> get_grade(class_id, row, c, st)
                  [] f = "School ID" -> RowGet(row, c.classes_school_col, "")
                  [] f = "Start Date" -> academic_start(year)
                  [] f = "End Date" -> academic_end(year)]
    IN  [cols |-> ClassCols,
         rows |-> [i \in DOMAIN joined.rows |->
                      output(SubjectClassId(joined.rows[i], c.classes_id_col,
                                            st.map, year),
                             joined.rows[i])]]

\* The subject block after the filter: [raised, frames]
SubjectFrames(non_homeroom_df, raw_data, c, year, st) ==
    LET Made(cm) ==
            IF cm.raised THEN [raised |-> TRUE, frames |-> <<>>]
            ELSE [raised |-> FALSE,
                  frames |-> <<SubjectOutput(cm.df, c, year, st)>>]
        Staffed(cm) ==
            IF cm.raised THEN [raised |-> TRUE, frames |-> <<>>]
            ELSE Made(StaffMerge(cm.df,
                                 get_source_file(raw_data, c.src["Classes"],
                                                 "staff_info"),
                                 c.gc_staff_col))
    IN  IF IsEmpty(non_homeroom_df) THEN [raised |-> FALSE, frames |-> <<>>]
        ELSE Staffed(CourseMerge(non_homeroom_df,
                                 get_source_file(raw_data, c.src["Classes"],
                                                 "course_info")))

\* Subject-class synthesis (the student_schedule block): [raised, frames]
SubjectClasses(raw_data, c, year, st) ==
    LET schedule0 == get_source_file(raw_data, c.src["Classes"], "student_schedule")
    IN  IF IsEmpty(schedule0) THEN [raised |-> FALSE, frames |-> <<>>]
        ELSE IF "grade" \notin schedule0.cols
        THEN [raised |-> TRUE, frames |-> <<>>]
        ELSE SubjectFrames(NonHomeroom(schedule0, c.gc_staff_col, c.homeroom_grades),
                           raw_data, c, year, st)

\* The blended detection step of the Classes block: [raised, st]
DetectStep(raw_data, c, year, st) ==
    LET teacher_id_col == c.gc_staff_col
        class_info0 == get_source_file(raw_data, c.src["Classes"], "class_info")
    IN  IF IsEmpty(class_info0) THEN [raised |-> FALSE, st |-> st]
        ELSE _detect_blended_classes(
                 NormCol(NormCol(class_info0, teacher_id_col), "master timetable id"),
                 c.src["Classes"], raw_data, teacher_id_col, year, st)

\* The end of the Classes block, from what the two syntheses produced (hr, sj)
\* and the BlendedIndex st1 after detection: [raised, tbl, hidx, st]
ClassesResult(hr, sj, hidx, st1) ==
    IF hr.raised
    THEN [raised |-> TRUE, tbl |-> EmptyDF, hidx |-> hidx, st |-> st1]
    ELSE IF sj.raised
    THEN [raised |-> TRUE, tbl |-> EmptyDF, hidx |-> hr.hidx, st |-> st1]
    ELSE IF hr.frames \o sj.frames = <<>>
    THEN [raised |-> FALSE, tbl |-> EmptyDF, hidx |-> hr.hidx, st |-> st1]
    ELSE IF "Class ID" \notin Concat(hr.frames \o sj.frames).cols
    THEN [raised |-> TRUE, tbl |-> EmptyDF, hidx |-> hr.hidx, st |-> st1]
    ELSE [raised |-> FALSE,
          tbl |-> DropDuplicates(Concat(hr.frames \o sj.frames), {"Class ID"}),
          hidx |-> hr.hidx, st |-> st1]

\* transform(df, mapping, "Classes", raw_data, global_config):
\* [raised, tbl, hidx, st], st the BlendedIndex [map, teachers, meta]
TransformClasses(raw_data, c, year, hidx, st) ==
    LET Rest(det) ==
            IF det.raised
            THEN [raised |-> TRUE, tbl |-> EmptyDF, hidx |-> hidx, st |-> det.st]
            ELSE ClassesResult(HomeroomClasses(raw_data, c, year, hidx),
                               SubjectClasses(raw_data, c, year, det.st),
                               hidx, det.st)
    IN  Rest(DetectStep(raw_data, c, year, st))

-----------------------------------------------------------------------------
(* transform: Enrollments                                                  *)

\* The rows of an Enrollments frame
EnrollRow(class_id, user_id, role, school) ==
    [k \in {"Class ID", "User ID", "Role", "school number"} |->
        CASE k = "Class ID" -> class_id
          [] k = "User ID" -> user_id
          [] k = "Role" -> role
          [] k = "school number" -> school]

\* teacher_enroll["User ID"].notna() & (astype(str).str.strip() != "")
HasUserId(row) == notna(row["User ID"]) /\ StrStrip(row["User ID"]) # ""

\* self.homeroom_classes_df as the homeroom block leaves it
HomeroomIndexAfter(hidx, staff_id_col) == NormCol(hidx, staff_id_col)

\* The homeroom block: [raised, frames, hidx]
HomeroomEnrollments(raw_data, c, hidx) ==
    LET student_id_col == c.enr_student_col
        staff_id_col == c.enr_staff_col
        grade_col == c.gc_grade_col
        homeroom_col == c.gc_homeroom_col
        demo0 == get_source_file(raw_data, c.src["Enrollments"], "student_demographic")
        demo1 == NormCol(demo0, staff_id_col)
        student_demo_df == IF grade_col \in demo1.cols
                           THEN ApplyCol(demo1, grade_col, grade_to_ceds) ELSE demo1
        homeroom_students ==
            Filter(student_demo_df, LAMBDA r : r[grade_col] \in c.homeroom_grades)
        hidx1 == HomeroomIndexAfter(hidx, staff_id_col)
        on == {"school number", homeroom_col}
        homeroom_enroll_df == Merge(homeroom_students, hidx1, on)
        valid == Filter(homeroom_enroll_df, LAMBDA r : notna(r["Class ID"]))
        student_enroll ==
            [cols |-> {"Class ID", "User ID", "Role", "school number"},
             rows |-> [i \in DOMAIN valid.rows |->
                          EnrollRow(valid.rows[i]["Class ID"],
                                    valid.rows[i][student_id_col], "student",
                                    valid.rows[i]["school number"])]]
        teacher_id_y_col == staff_id_col \o "_y"
        firsts == DropDuplicates(valid, {"Class ID"})
        teacher_enroll ==
            [cols |-> {"Class ID", "User ID", "Role"},
             rows |-> SelectSeq(
                 [i \in DOMAIN firsts.rows |->
                     [k \in {"Class ID", "User ID", "Role"} |->
                         CASE k = "Class ID" -> firsts.rows[i]["Class ID"]
                           [] k = "User ID" -> firsts.rows[i][teacher_id_y_col]
                           [] k = "Role" -> "teacher"]],
                 HasUserId)]
    IN  IF IsEmpty(demo0) \/ IsEmpty(hidx)
        THEN [raised |-> FALSE, frames |-> <<>>, hidx |-> hidx]
        ELSE IF grade_col \notin demo0.cols
        THEN [raised |-> TRUE, frames |-> <<>>, hidx |-> hidx]
        ELSE IF IsEmpty(homeroom_students)
        THEN [raised |-> FALSE, frames |-> <<>>, hidx |-> hidx]
        \* inside the try block: a KeyError of the merge or of the column
        \* selection is caught and nothing is appended
        ELSE IF ~(on \subseteq homeroom_students.cols /\ on \subseteq hidx1.cols)
        THEN [raised |-> FALSE, frames |-> <<>>, hidx |-> hidx1]
        ELSE IF IsEmpty(valid)
        THEN [raised |-> FALSE, frames |-> <<>>, hidx |-> hidx1]
        ELSE IF student_id_col \notin valid.cols
        THEN [raised |-> FALSE, frames |-> <<>>, hidx |-> hidx1]
        ELSE IF teacher_id_y_col \in valid.cols
        THEN [raised |-> FALSE, frames |-> <<student_enroll, teacher_enroll>>,
              hidx |-> hidx1]
        ELSE [raised |-> FALSE, frames |-> <<student_enroll>>, hidx |-> hidx1]

\* The rows the loop over blended_teacher_map.items() builds, then
\* pd.DataFrame(rows).drop_duplicates()
BlendedTeacherRows(st) ==
    LET rows_of(e) == [i \in DOMAIN e.v |->
                          EnrollRow(e.k, e.v[i], "teacher",
                                    IF e.k \in Keys(st.meta)
                                    THEN Lookup(st.meta, e.k).SchoolID ELSE "")]
    IN  Unique(Flatten([i \in DOMAIN st.teachers |-> rows_of(st.teachers[i])]))

\* The subject block, for a schedule with rows: [raised, frames]
SubjectEnrollments(schedule1, c, year, st) ==
    LET student_id_col == c.enr_student_col
        staff_id_col == c.enr_staff_col
        mt_id_col == c.enr_id_col
        schedule_df == NormCol(schedule1, staff_id_col)
        non_homeroom0 ==
            Filter(schedule_df,
                   LAMBDA r : grade_to_ceds(r["grade"]) \notin c.homeroom_grades)
        non_homeroom1 == NormCol(non_homeroom0, mt_id_col)
        non_homeroom_enroll_df ==
            WithCol(non_homeroom1, "Class ID",
                    LAMBDA r : SubjectClassId(r, mt_id_col, st.map, year))
        all4 == {"Class ID", "User ID", "Role", "school number"}
        student_enroll ==
            [cols |-> all4,
             rows |-> [i \in DOMAIN non_homeroom_enroll_df.rows |->
                 EnrollRow(non_homeroom_enroll_df.rows[i]["Class ID"],
                           non_homeroom_enroll_df.rows[i][student_id_col], "student",
                           non_homeroom_enroll_df.rows[i]["school number"])]]
        blended_rows == BlendedTeacherRows(st)
        non_blended_df ==
            Filter(non_homeroom_enroll_df,
                   LAMBDA r : r["Class ID"] \notin Keys(st.teachers))
        teacher_enroll ==
            [cols |-> all4,
             rows |-> SelectSeq(
                 [i \in DOMAIN non_blended_df.rows |->
                     EnrollRow(non_blended_df.rows[i]["Class ID"],
                               non_blended_df.rows[i][staff_id_col], "teacher",
                               non_blended_df.rows[i]["school number"])],
                 HasUserId)]
        frames ==
             (IF student_id_col \in non_homeroom_enroll_df.cols
              THEN <<student_enroll>> ELSE <<>>)
             \o (IF blended_rows # <<>>
                 THEN <<[cols |-> all4, rows |-> blended_rows]>> ELSE <<>>)
             \o (IF staff_id_col \in non_blended_df.cols
                 THEN <<teacher_enroll>> ELSE <<>>)
    IN  IF "grade" \notin schedule1.cols
        THEN [raised |-> TRUE, frames |-> <<>>]
        ELSE IF IsEmpty(non_homeroom0)
        THEN [raised |-> FALSE, frames |-> <<>>]
        ELSE IF "school number" \notin schedule1.cols /\
                {student_id_col, staff_id_col} \cap schedule1.cols # {}
        THEN [raised |-> TRUE, frames |-> <<>>]
        ELSE [raised |-> FALSE, frames |-> frames]

\* A key that keeps one row for each class and role
ClassRoleKey == {"Class ID", "Role"}

\* drop_duplicates(subset=["Class ID", "User ID", "Role"])
EnrollKey == {"Class ID", "User ID", "Role"}

NoDedup(df, cs) == df

FinalEnrollments(df, cs) == DropDuplicates(df, cs)

\* The end of the Enrollments block, from what the two blocks produced:
\* [raised, tbl, hidx]
EnrollmentsResult(hr, sj) ==
    IF hr.raised \/ sj.raised
    THEN [raised |-> TRUE, tbl |-> EmptyDF, hidx |-> hr.hidx]
    ELSE IF hr.frames \o sj.frames = <<>>
    THEN [raised |-> FALSE, tbl |-> EmptyDF, hidx |-> hr.hidx]
    ELSE [raised |-> FALSE,
          tbl |-> RenameCol(FinalEnrollments(Concat(hr.frames \o sj.frames),
                                             EnrollKey),
                            "school number", "School ID"),
          hidx |-> hr.hidx]

\* transform(df, mapping, "Enrollments", raw_data, global_config):
\* [raised, tbl, hidx]
TransformEnrollments(raw_data, c, year, hidx, st) ==
    LET schedule0 == get_source_file(raw_data, c.src["Enrollments"], "student_schedule")
    IN  IF IsEmpty(schedule0)
        THEN [raised |-> FALSE, tbl |-> EmptyDF, hidx |-> hidx]
        ELSE EnrollmentsResult(HomeroomEnrollments(raw_data, c, hidx),
                               SubjectEnrollments(schedule0, c, year, st))

-----------------------------------------------------------------------------
(* transform: Students, Staff, Family (the generic field loop)             *)

\* result[col] = scalar: every row takes the value; a frame that has no rows
\* yet keeps none.
SetScalar(df, col, value) == WithCol(df, col, LAMBDA r : value)

\* result[col] = series, a value per row of `working`: a frame without rows
\* first takes the series' index, its existing columns null.
SetSeries(df, col, values) ==
    LET base == IF df.rows = <<>>
                THEN [i \in DOMAIN values |-> [k \in df.cols |-> Null]]
                ELSE df.rows
    IN  [cols |-> df.cols \cup {col},
         rows |-> [i \in DOMAIN base |->
                      [k \in df.cols \cup {col} |->
                          IF k = col THEN values[i] ELSE base[i][k]]]]

\* str(flag).strip().lower() == "y"
map_role(teaching_flag) ==
    IF StrStrip(teaching_flag) \in {"y", "Y"} THEN "teacher" ELSE "administrator"

\* generate_student_email with a format whose placeholders are `fields`
generate_student_email(row, fields) ==
    IF \A i \in DOMAIN fields : fields[i] \in DOMAIN row
    THEN JoinWith([i \in DOMAIN fields |-> Str(row[fields[i]])], ".") \o "@sd.ca"
    ELSE ""

\* field_map.get("Email Address", {}).get("format") when the entry is a dict
email_format_of(field_map) ==
    IF "Email Address" \in Keys(field_map)
    THEN IF Lookup(field_map, "Email Address").kind = "format"
         THEN Lookup(field_map, "Email Address").format ELSE <<>>
    ELSE <<>>

\* A format string str.format cannot parse, such as one with an unmatched
\* brace, given as its one token
MalformedFormat == <<"{">>

\* format_str.format(**row_lower) raises ValueError for such a string;
\* generate_student_email catches KeyError only.
EmailRaises(fields) == "{" \in Range(fields)

\* The Students block: Email Address and EnrollStatus
StudentsBespoke(working, field_map) ==
    LET r0 == EmptyDF
        email_format == email_format_of(field_map)
        r1 == IF email_format # <<>>
              THEN SetSeries(r0, "Email Address",
                       [i \in DOMAIN working.rows |->
                           generate_student_email(working.rows[i], email_format)])
              ELSE r0
        status(x) == IF StrStrip(x) \in {"Active", "PreReg"}
                     THEN StrStrip(x) ELSE "Inactive"
        withdrawn(x) == IF x = Null \/ StrStrip(x) = "" THEN "Active" ELSE "Inactive"
    IN  IF "enrolment status" \in working.cols
        THEN SetSeries(r1, "EnrollStatus",
                 [i \in DOMAIN working.rows |->
                     status(working.rows[i]["enrolment status"])])
        ELSE IF "withdraw date" \in working.cols
        THEN SetSeries(r1, "EnrollStatus",
                 [i \in DOMAIN working.rows |->
                     withdrawn(working.rows[i]["withdraw date"])])
        ELSE SetScalar(r1, "EnrollStatus", "Active")

\* The Staff block: [raised, working]
StaffJoin(df, raw_data, c) ==
    LET normalized_sources == normalize_source_config(c.src["Staff"])
        teacher_id_col == c.gc_staff_col
        staff_filename == IF "staff_info" \in Keys(normalized_sources)
                          THEN Lookup(normalized_sources, "staff_info") ELSE ""
        roster_filename == normalized_sources[2].v
        staff_df == IF staff_filename \in DOMAIN raw_data
                    THEN raw_data[staff_filename] ELSE EmptyDF
        roster_df == IF roster_filename \in DOMAIN raw_data
                     THEN raw_data[roster_filename] ELSE EmptyDF
        roster == DropDuplicates(Project(roster_df, {teacher_id_col, "staff sourceid"}),
                                 {teacher_id_col})
    IN  IF Len(normalized_sources) > 1 /\ ~IsEmpty(staff_df) /\ ~IsEmpty(roster_df)
           /\ teacher_id_col \in staff_df.cols /\ "staff sourceid" \in roster_df.cols
        THEN IF teacher_id_col \in roster_df.cols
             THEN [raised |-> FALSE, working |-> Merge(staff_df, roster, {teacher_id_col})]
             ELSE [raised |-> TRUE, working |-> df]
        ELSE [raised |-> FALSE, working |-> df]

Transforms == {"grade_to_ceds", "map_role"}

ApplyTransform(name, v) ==
    IF name = "grade_to_ceds" THEN grade_to_ceds(v) ELSE map_role(v)

\* A field loop that adds no column for a source column it does not find
MissingColumnSkipped(result, tgt) == result

\* result[tgt_field] = pd.NA for a column the working table lacks
MissingColumn(result, tgt) == SetScalar(result, tgt, Null)

\* One iteration of the field loop: result after field [tgt, d]
FieldStep(result, working, tgt, d, year) ==
    LET column(col) == [i \in DOMAIN working.rows |-> working.rows[i][col]]
    IN  IF tgt \in result.cols THEN result
        ELSE IF d.kind = "value" THEN SetScalar(result, tgt, d.value)
        ELSE IF d.kind = "year"
        THEN SetScalar(result, tgt,
                 IF tgt = "Start Date" THEN academic_start(year)
                 ELSE academic_end(year))
        ELSE IF d.kind = "append"
        THEN SetSeries(result, tgt,
                 [i \in DOMAIN working.rows |->
                     generate_class_id(working.rows[i], d.column, year)])
        ELSE IF d.column \in working.cols
        THEN IF d.kind = "column" /\ d.transform # ""
             THEN IF d.transform \in Transforms
                  THEN SetSeries(result, tgt,
                           [i \in DOMAIN working.rows |->
                               ApplyTransform(d.transform, working.rows[i][d.column])])
                  ELSE SetScalar(result, tgt, Null)
             ELSE SetSeries(result, tgt, column(d.column))
        ELSE MissingColumn(result, tgt)

RECURSIVE FieldLoop(_, _, _, _)
FieldLoop(result, working, field_map, year) ==
    IF field_map = <<>> THEN result
    ELSE FieldLoop(FieldStep(result, working, Head(field_map).k,
                             Head(field_map).v, year),
                   working, Tail(field_map), year)

\* transform(df, mapping, entity, raw_data, global_config) for Students,
\* Staff and Family: [raised, tbl]
TransformGeneric(entity, df, raw_data, c, year) ==
    LET staff == StaffJoin(df, raw_data, c)
        working == IF entity = "Staff" THEN staff.working ELSE df
        result0 == IF entity = "Students" THEN StudentsBespoke(df, c.field_map[entity])
                   ELSE EmptyDF
    IN  IF \/ entity = "Staff" /\ staff.raised
           \/ entity = "Students" /\ EmailRaises(email_format_of(c.field_map[entity]))
        THEN [raised |-> TRUE, tbl |-> EmptyDF]
        ELSE [raised |-> FALSE,
              tbl |-> FieldLoop(result0, working, c.field_map[entity], year)]

-----------------------------------------------------------------------------
(* The school year                                                         *)

\* A cell of a "school year" column is held as the characters of its text,
\* astype(str) of the value read; a missing cell is the empty sequence.
NoText == <<>>

Digits == <<"0", "1", "2", "3", "4", "5", "6", "7", "8", "9">>

DigitValue(ch) == (CHOOSE i \in DOMAIN Digits : Digits[i] = ch) - 1

\* The number a sequence of digits writes
RECURSIVE Decimal(_)
Decimal(cs) ==
    IF cs = <<>> THEN 0
    ELSE 10 * Decimal(SubSeq(cs, 1, Len(cs) - 1)) + DigitValue(cs[Len(cs)])

\* int(text) raises ValueError: text that, trimmed, is not a run of digits
\* (the texts of the model carry no sign and no underscore)
int_raises(cs) ==
    \/ StripChars(cs) = <<>>
    \/ \E i \in DOMAIN StripChars(cs) : StripChars(cs)[i] \notin Range(Digits)

int(cs) == Decimal(StripChars(cs))

\* f"{year}"
RECURSIVE IntText(_)
IntText(n) ==
    IF n < 10 THEN Digits[n + 1]
    ELSE IntText(n \div 10) \o Digits[(n % 10) + 1]

\* A fallback that takes the current year whatever the month
CalendarYearOnly(clock) == clock.year

\* now = datetime.now(); now.year if now.month >= 8 else now.year - 1
calendar_year(clock) == IF clock.month >= 8 THEN clock.year ELSE clock.year - 1

\* df["school year"].dropna().astype(str).str[:4].unique()
years_of(df) ==
    LET present == SelectSeq([i \in DOMAIN df.rows |-> df.rows[i]["school year"]],
                             LAMBDA v : v # NoText)
    IN  Unique([i \in DOMAIN present |->
                   SubSeq(present[i], 1, IF Len(present[i]) < 4
                                         THEN Len(present[i]) ELSE 4)])

determine_school_year(all_data, source_config, clock) ==
    LET normalized_sources == normalize_source_config(source_config)
        returns(i) ==
            /\ normalized_sources[i].v \in DOMAIN all_data
            /\ "school year" \in all_data[normalized_sources[i].v].cols
            /\ years_of(all_data[normalized_sources[i].v]) # <<>>
            /\ ~int_raises(years_of(all_data[normalized_sources[i].v])[1])
        first == CHOOSE i \in DOMAIN normalized_sources :
                     /\ returns(i)
                     /\ \A j \in DOMAIN normalized_sources : returns(j) => i <= j
    IN  IF \E i \in DOMAIN normalized_sources : returns(i)
        THEN int(years_of(all_data[normalized_sources[first].v])[1])
        ELSE calendar_year(clock)

\* set_school_year: school_year as the f-strings print it
set_school_year(year) == IntText(year)

-----------------------------------------------------------------------------
(* main: the entity loop                                                   *)

EntitiesSwapped == <<"Students", "Staff", "Family", "Enrollments", "Classes">>

\* for entity_name in ("Students", "Staff", "Family", "Classes", "Enrollments")
Entities == <<"Students", "Staff", "Family", "Classes", "Enrollments">>

BlendedIndex == [map |-> blended_class_map, teachers |-> blended_teacher_map,
                 meta |-> blended_class_metadata]

\* get_source_files_list(source_config): the items main takes for filenames
get_source_files_list(source_config) ==
    IF source_config.shape = "dict"
    THEN [i \in DOMAIN source_config.items |-> Name(source_config.items[i].v)]
    ELSE IF source_config.shape = "list"
    THEN IF AllOfKind(source_config.items, "dict")
         THEN SelectSeq(source_config.items, LAMBDA item : "file" \in item.keys)
         ELSE source_config.items
    ELSE <<>>

\* raw_data.get(primary_source, pd.DataFrame()) raises TypeError for a
\* primary_source that is a dict
Unhashable(entity) ==
    /\ cfg.src[entity].items # <<>>
    /\ get_source_files_list(cfg.src[entity]) # <<>>
    /\ cfg.src[entity].shape = "list"
    /\ ~AllOfKind(cfg.src[entity].items, "dict")
    /\ get_source_files_list(cfg.src[entity])[1].kind = "dict"

\* source_files[0] looked up in raw_data
PrimaryDF(entity) ==
    LET source_files == get_source_files_list(cfg.src[entity])
    IN  IF source_files[1].file \in DOMAIN raw
        THEN raw[source_files[1].file] ELSE EmptyDF

\* The loop body skips the entity before transform is called.
Skips(entity) ==
    \/ cfg.src[entity].items = <<>>
    \/ get_source_files_list(cfg.src[entity]) = <<>>
    \/ IsEmpty(PrimaryDF(entity))

\* field_order = list(entity_cfg.get("field_map", {}).keys())
field_order(entity) ==
    CASE entity = "Classes" -> cfg.classes_fields
      [] entity = "Enrollments" -> cfg.enrollments_fields
      [] OTHER -> [i \in DOMAIN cfg.field_map[entity] |-> cfg.field_map[entity][i].k]

\* save_to_csv: df[field_order] raises KeyError for a key that is no column of
\* df, and the loader raises it again
save_to_csv(df, entity) == Range(field_order(entity)) \subseteq df.cols

\* What the loop body records for a call of transform that returned r
Outcome(entity, r) ==
    IF r.raised THEN [status |-> "raised", tbl |-> EmptyDF]
    ELSE IF IsEmpty(r.tbl) THEN [status |-> "empty", tbl |-> r.tbl]
    ELSE IF save_to_csv(r.tbl, entity) THEN [status |-> "saved", tbl |-> r.tbl]
    ELSE [status |-> "unsaved", tbl |-> r.tbl]

\* The loop continues after the entity at position i unless transform or the
\* loader raised.
NextPc(i, entity, r) ==
    IF r.raised \/ (~IsEmpty(r.tbl) /\ ~save_to_csv(r.tbl, entity))
    THEN Len(Entities) + 2 ELSE i + 1

Skip(i) ==
    /\ out' = [out EXCEPT ![Entities[i]] = [status |-> "skipped", tbl |-> EmptyDF]]
    /\ pc' = i + 1
    /\ UNCHANGED <<now, raw, cfg, school_year, index, calls>>

\* The loop body ends the run where looking up the primary source raises
Crash(i) ==
    /\ out' = [out EXCEPT ![Entities[i]] = [status |-> "raised", tbl |-> EmptyDF]]
    /\ pc' = Len(Entities) + 2
    /\ UNCHANGED <<now, raw, cfg, school_year, index, calls>>

Position(entity) == CHOOSE i \in DOMAIN Entities : Entities[i] = entity

\* A frame handed out by reference: what is written into it is written
\* into the table of raw_data
Aliased(original, written) == written

\* df.copy() and raw_data[filename].copy(): transform writes into a copy,
\* the table of raw_data stays as it was
copy(original, written) == original

\* The writes of transform into a frame it holds: the column names
\* stripped and lower-cased (the names of the model are in that form) and
\* df[col] = df[col].astype(str).str.strip() for the id columns
RECURSIVE Written(_, _)
Written(df, id_cols) ==
    IF id_cols = <<>> THEN df
    ELSE Written(NormCol(df, Head(id_cols)), Tail(id_cols))

\* The files of the source roles of an entity
SourceFiles(entity) ==
    {normalize_source_config(cfg.src[entity])[i].v :
         i \in DOMAIN normalize_source_config(cfg.src[entity])}

\* raw_data after a call of transform that held the files and cast the
\* id columns
raw_after(all_data, files, id_cols) ==
    [f \in DOMAIN all_data |->
        IF f \in files THEN copy(all_data[f], Written(all_data[f], id_cols))
        ELSE all_data[f]]

\* The loop body for an entity of the generic path
GenericStep(entity) ==
    IF Unhashable(entity) THEN Crash(pc)
    ELSE IF Skips(entity) THEN Skip(pc)
    ELSE \E r \in {TransformGeneric(entity, PrimaryDF(entity), raw, cfg,
                                    school_year)} :
             /\ out' = [out EXCEPT ![entity] = Outcome(entity, r)]
             /\ calls' = Append(calls, entity)
             /\ pc' = NextPc(pc, entity, r)
             /\ raw' = raw_after(raw, SourceFiles(entity), <<>>)
             /\ UNCHANGED <<now, cfg, school_year, index>>

Students ==
    /\ pc = Position("Students")
    /\ GenericStep("Students")

Staff ==
    /\ pc = Position("Staff")
    /\ GenericStep("Staff")

Family ==
    /\ pc = Position("Family")
    /\ GenericStep("Family")

Classes ==
    /\ pc = Position("Classes")
    /\ IF Unhashable("Classes") THEN Crash(pc)
       ELSE IF Skips("Classes") THEN Skip(pc)
       ELSE \E r \in {TransformClasses(raw, cfg, school_year, homeroom_classes_df,
                                       BlendedIndex)} :
                /\ out' = [out EXCEPT !["Classes"] = Outcome("Classes", r)]
                /\ calls' = Append(calls, "Classes")
                /\ homeroom_classes_df' = r.hidx
                /\ blended_class_map' = r.st.map
                /\ blended_teacher_map' = r.st.teachers
                /\ blended_class_metadata' = r.st.meta
                /\ pc' = NextPc(pc, "Classes", r)
                /\ raw' = raw_after(raw, SourceFiles("Classes"),
                                    <<"master timetable id", cfg.gc_staff_col>>)
                /\ UNCHANGED <<now, cfg, school_year>>

Enrollments ==
    /\ pc = Position("Enrollments")
    /\ IF Unhashable("Enrollments") THEN Crash(pc)
       ELSE IF Skips("Enrollments") THEN Skip(pc)
       ELSE \E r \in {TransformEnrollments(raw, cfg, school_year,
                                           homeroom_classes_df, BlendedIndex)} :
                /\ out' = [out EXCEPT !["Enrollments"] = Outcome("Enrollments", r)]
                /\ calls' = Append(calls, "Enrollments")
                /\ homeroom_classes_df' = r.hidx
                /\ pc' = NextPc(pc, "Enrollments", r)
                /\ raw' = raw_after(raw, SourceFiles("Enrollments"),
                                    <<"master timetable id", cfg.enr_staff_col>>)
                /\ UNCHANGED <<now, cfg, school_year, blended_class_map,
                               blended_class_metadata, blended_teacher_map>>

Next == Students \/ Staff \/ Family \/ Classes \/ Enrollments

\* main before the loop: sy = determine_school_year(raw_data,
\* sy_sources_config); set_school_year(sy)
DetermineSchoolYear ==
    /\ pc = 0
    /\ school_year' = set_school_year(determine_school_year(
                           raw, cfg.school_year_sources, now))
    /\ pc' = 1
    /\ UNCHANGED <<now, raw, cfg, index, out, calls>>

\* main from the determination of the school year on
NextMain == DetermineSchoolYear \/ Next

-----------------------------------------------------------------------------
(* Inputs: the files main loads and the mapping document it reads          *)

D(k, v) == [k |-> k, v |-> v]

\* The sequences over S of length at most n
RECURSIVE SeqsUpTo(_, _)
SeqsUpTo(S, n) ==
    IF n = 0 THEN {<<>>}
    ELSE LET shorter == SeqsUpTo(S, n - 1)
         IN  shorter \cup {Append(q, x) : q \in {t \in shorter : Len(t) = n - 1},
                                          x \in S}

Table(cs, rows) == [cols |-> cs, rows |-> rows]

\* The table without one of its columns
Without(df, col) == Project(df, df.cols \ {col})

\* A student_schedule row: one student in one session
SchedRow(mtid, grade, teacher, student) ==
    ("school number" :> "S1") @@ ("master timetable id" :> mtid) @@
    ("grade" :> grade) @@ ("teacher id" :> teacher) @@
    ("student number" :> student) @@ ("course code" :> "C1")

SchedCols == {"school number", "master timetable id", "grade", "teacher id",
              "student number", "course code"}

\* A student_demographic row
DemoRow(homeroom, grade, teacher, student) ==
    ("school number" :> "S1") @@ ("homeroom" :> homeroom) @@ ("grade" :> grade) @@
    ("teacher id" :> teacher) @@ ("student number" :> student) @@
    ("teacher name" :> "Ms T")

DemoCols == {"school number", "homeroom", "grade", "teacher id", "student number",
             "teacher name"}

\* A class_info row: one session of a teacher in a timetable slot
InfoRow(mtid, teacher, period) ==
    ("school number" :> "S1") @@ ("teacher id" :> teacher) @@ ("term" :> "1") @@
    ("semester" :> Null) @@ ("day" :> "Mon") @@ ("period" :> period) @@
    ("master timetable id" :> mtid) @@ ("course code" :> "C1")

InfoCols == {"school number", "teacher id", "term", "semester", "day", "period",
             "master timetable id", "course code"}

CourseTable == Table({"school number", "course code", "title"},
                     <<("school number" :> "S1") @@ ("course code" :> "C1") @@
                       ("title" :> "Math")>>)

StudentRows ==
    <<("student number" :> "A") @@ ("grade" :> "1") @@ ("first name" :> "ann") @@
      ("last name" :> "lee") @@ ("enrolment status" :> "Active") @@
      ("withdraw date" :> Null),
      ("student number" :> "B") @@ ("grade" :> "k") @@ ("first name" :> "bo") @@
      ("last name" :> "roy") @@ ("enrolment status" :> "Left") @@
      ("withdraw date" :> "2024-01-09")>>

StudentCols == {"student number", "grade", "first name", "last name"}

\* The students file with the status columns `extra`
StudentsTable(extra) ==
    Project(Table(StudentCols \cup {"enrolment status", "withdraw date"},
                  StudentRows),
            StudentCols \cup extra)

StaffTable == Table({"teacher id", "teaching flag"},
                    <<("teacher id" :> "T1") @@ ("teaching flag" :> "Y"),
                      ("teacher id" :> "T2") @@ ("teaching flag" :> "n")>>)

FamilyTable == Table({"student number", "parent email"},
                     <<("student number" :> "A") @@ ("parent email" :> "p@x.ca")>>)

\* Field-map directives: {column, transform}, a plain column name, {value}
Column(col, transform) ==
    [kind |-> "column", column |-> col, transform |-> transform, value |-> ""]

Plain(col) == [kind |-> "plain", column |-> col, transform |-> "", value |-> ""]

Value(v) == [kind |-> "value", column |-> "", transform |-> "", value |-> v]

AppendYear(col) ==
    [kind |-> "append", column |-> col, transform |-> "", value |-> ""]

\* The Email Address directive, its format string given by its placeholders
Format(fields) ==
    [kind |-> "format", column |-> "", transform |-> "", value |-> "",
     format |-> fields]

ClassSources ==
    <<D("student_schedule", "schedule.txt"), D("student_demographic", "demo.txt"),
      D("course_info", "course.txt"), D("staff_info", "staff_info.txt"),
      D("class_info", "classinfo.txt")>>

EnrollSources ==
    <<D("student_schedule", "schedule.txt"), D("student_demographic", "demo.txt")>>

\* A field map of the generic entities
BaseFields == <<D("User ID", Plain("student number")), D("EnrollStatus", Plain("status"))>>

\* The mapping document with the column names the code defaults to
BaseCfg ==
    [src |-> [e \in Range(Entities) |->
                 CASE e = "Students" -> Dict(<<D("students", "students.txt")>>)
                   [] e = "Staff" -> Dict(<<D("staff", "staff.txt")>>)
                   [] e = "Family" -> Dict(<<D("family", "family.txt")>>)
                   [] e = "Classes" -> Dict(ClassSources)
                   [] e = "Enrollments" -> Dict(EnrollSources)],
     field_map |-> [e \in {"Students", "Staff", "Family"} |-> BaseFields],
     homeroom_grades |-> {},
     gc_staff_col |-> "teacher id",
     gc_grade_col |-> "grade",
     gc_homeroom_col |-> "homeroom",
     classes_fields |-> <<"Class ID", "Name", "Grade", "School ID", "Start Date",
                          "End Date">>,
     school_year_sources |-> Dict(<<>>),
     enrollments_fields |-> <<"Class ID", "User ID", "Role", "School ID">>,
     classes_id_col |-> "master timetable id",
     classes_grade_col |-> "grade",
     classes_school_col |-> "school number",
     enr_student_col |-> "student number",
     enr_staff_col |-> "teacher id",
     enr_id_col |-> "master timetable id"]

\* raw_data: the files as the extractor loaded them
Files(students, schedule, demo, info) ==
    ("students.txt" :> students) @@ ("staff.txt" :> StaffTable) @@
    ("family.txt" :> FamilyTable) @@ ("schedule.txt" :> schedule) @@
    ("demo.txt" :> demo) @@ ("classinfo.txt" :> info) @@
    ("course.txt" :> CourseTable) @@ ("staff_info.txt" :> EmptyDF)

\* The transformer as constructed, at the head of main's entity loop
Fresh ==
    /\ school_year = "2024"
    /\ homeroom_classes_df = EmptyDF
    /\ blended_class_map = <<>>
    /\ blended_class_metadata = <<>>
    /\ blended_teacher_map = <<>>
    /\ pc = 1
    /\ out = [e \in Range(Entities) |-> [status |-> "pending", tbl |-> EmptyDF]]
    /\ calls = <<>>
    /\ now = [year |-> 2024, month |-> 9]

-----------------------------------------------------------------------------
(* Runs over schedules, class_info tables and demographic tables           *)

MaxSched == 3

SchedRows ==
    {SchedRow("M1", "1", "T1", "A"), SchedRow("M2", "2", "T1", "B"),
     SchedRow("M1", "8", "T1", "A"), SchedRow("M2", "9", "T2", "A"),
     SchedRow("M3", "9", Null, "B")}

InfoTables ==
    {<<>>,
     <<InfoRow("M1", "T1", "1"), InfoRow("M2", "T1", "1")>>,
     <<InfoRow("M1", "T1", "1"), InfoRow("M2", "T1", "1"), InfoRow("M2", "T2", "2")>>}

DemoTables ==
    {<<>>,
     <<DemoRow("H1", "1", "T1", "A"), DemoRow("H1", "2", "T1", "B")>>,
     <<DemoRow("H1", "1", "T1", "A"), DemoRow(Null, "1", Null, "A")>>}

Init ==
    /\ Fresh
    /\ \E schedule \in SeqsUpTo(SchedRows, MaxSched), info \in InfoTables,
          demo \in DemoTables, hg \in {{}, {"01", "02"}} :
          /\ raw = Files(StudentsTable({}), Table(SchedCols, schedule),
                         Table(DemoCols, demo), Table(InfoCols, info))
          /\ cfg = [BaseCfg EXCEPT !.homeroom_grades = hg]

Spec == Init /\ [][Next]_vars

-----------------------------------------------------------------------------
(* Properties of the runs of Spec                                          *)

\* The entities in the order the specification gives
FixedOrder == <<"Students", "Staff", "Family", "Classes", "Enrollments">>

OrderOf(e) == CHOOSE i \in DOMAIN FixedOrder : FixedOrder[i] = e

\* The Class ID values of an entity's output
ClassIds(e) ==
    IF "Class ID" \in out[e].tbl.cols
    THEN {out[e].tbl.rows[i]["Class ID"] : i \in DOMAIN out[e].tbl.rows}
    ELSE {}

\* The teacher-role rows of the Enrollments output for a class
TeacherRows(class_id) ==
    {i \in DOMAIN out["Enrollments"].tbl.rows :
        /\ out["Enrollments"].tbl.rows[i]["Class ID"] = class_id
        /\ out["Enrollments"].tbl.rows[i]["Role"] = "teacher"}

\* C1: after a run in which transform(Classes) is followed by
\* transform(Enrollments), every Class ID of the Enrollments output is a
\* Class ID of the Classes output.
C1_ReferentialIntegrity ==
    {"Classes", "Enrollments"} \subseteq Range(calls) =>
        ClassIds("Enrollments") \subseteq ClassIds("Classes")

\* C4: no two rows of an Enrollments output have the same
\* (Class ID, User ID, Role).
C4_EnrollmentUniqueness ==
    \A i, j \in DOMAIN out["Enrollments"].tbl.rows :
        (\A k \in {"Class ID", "User ID", "Role"} :
            out["Enrollments"].tbl.rows[i][k] = out["Enrollments"].tbl.rows[j][k])
        => i = j

\* An Enrollments output with homeroom, subject and blended rows, made from
\* a schedule that holds one subject row twice.
C4_Witness ==
    /\ out["Enrollments"].status = "saved"
    /\ \E i, j \in DOMAIN raw["schedule.txt"].rows :
          /\ i < j
          /\ raw["schedule.txt"].rows[i] = raw["schedule.txt"].rows[j]
          /\ grade_to_ceds(raw["schedule.txt"].rows[i]["grade"])
                \notin cfg.homeroom_grades
    /\ "S1_H1_2024" \in ClassIds("Enrollments")
    /\ "BLENDED_S1_T1_1__Mon_1_2024" \in ClassIds("Enrollments")

\* C5: the entities are processed in the order Students, Staff, Family,
\* Classes, Enrollments: transform is called in that order, an entity is
\* processed only after all the entities before it, and transform(Enrollments)
\* is called only after the Classes step of the run.
C5_Ordering ==
    /\ \A i, j \in DOMAIN calls :
          i < j => OrderOf(calls[i]) < OrderOf(calls[j])
    /\ \A i, j \in DOMAIN FixedOrder :
          i < j /\ out[FixedOrder[j]].status # "pending"
             => out[FixedOrder[i]].status # "pending"
    /\ "Enrollments" \in Range(calls) => out["Classes"].status # "pending"

\* A run that called transform for all five entities
C5_Witness == calls = FixedOrder

\* C7: for every blended class id of the BlendedIndex the Enrollments output
\* has exactly one teacher row per teacher of the class's roster and no other
\* teacher row for the class.
C7_BlendedTeacherFanOut ==
    "Enrollments" \in Range(calls) =>
        \A e \in Range(blended_teacher_map) :
            /\ \A t \in Range(e.v) :
                  Cardinality({i \in TeacherRows(e.k) :
                      out["Enrollments"].tbl.rows[i]["User ID"] = t}) = 1
            /\ \A i \in TeacherRows(e.k) :
                  out["Enrollments"].tbl.rows[i]["User ID"] \in Range(e.v)

-----------------------------------------------------------------------------
(* Runs over class_info tables whose sessions share timetable slots        *)

MaxInfo == 4

InfoRows ==
    {InfoRow("M1", "T1", "1"), InfoRow("M2", "T1", "1"),
     InfoRow("M1", "T1", "2"), InfoRow("M3", "T1", "2")}

\* The schedule of sessions M1 and M2, and of M3 when `third`
BlendedSchedule(g1, g2, third) ==
    <<SchedRow("M1", g1, "T1", "A"), SchedRow("M2", g2, "T1", "B")>> \o
    (IF third THEN <<SchedRow("M3", "9", "T1", "C")>> ELSE <<>>)

InitBlended ==
    /\ Fresh
    /\ \E info \in SeqsUpTo(InfoRows, MaxInfo), g1 \in {"7", IntZero},
          g2 \in {"7", " 7", "8"}, third \in BOOLEAN, coded \in BOOLEAN :
          /\ raw = Files(StudentsTable({}),
                         Table(SchedCols, BlendedSchedule(g1, g2, third)),
                         Table(DemoCols, <<>>),
                         IF coded THEN Table(InfoCols, info)
                         ELSE Without(Table(InfoCols, info), "course code"))
          /\ cfg = BaseCfg

SpecBlended == InitBlended /\ [][Next]_vars

\* The rows of class_info as detection groups them, and the grade lookup
WorkingInfo ==
    FillComponents(NormCol(NormCol(raw["classinfo.txt"], "teacher id"),
                           "master timetable id"),
                   available_components(raw["classinfo.txt"], "teacher id")).rows

GroupOf(key) == SelectSeq(WorkingInfo, LAMBDA r : session_key(r, "teacher id") = key)

MembersOf(key) == {GroupOf(key)[i]["master timetable id"] : i \in DOMAIN GroupOf(key)}

SessionKeys == GroupKeys(WorkingInfo, "teacher id")

GradeMap == mtid_to_grade_map(NormCol(raw["schedule.txt"], "master timetable id"))

\* The CEDS-normalized grades looked up for the member session ids of a group
LookedUpGrades(key) ==
    {grade_to_ceds(GradeMap[m]) : m \in MembersOf(key) \cap DOMAIN GradeMap}

BlendedId(key) == "BLENDED_" \o key \o "_" \o school_year

\* The group of the key is recorded as a blended class
Recorded(key) == BlendedId(key) \in Keys(blended_class_metadata)

\* transform(Classes) was called and returned
Detected == out["Classes"].status \in {"saved", "empty"}

\* C2: a class_info group sharing one session key is recorded as a blended
\* class if and only if it has at least 2 rows and the CEDS-normalized grades
\* looked up for its member session ids have at least 2 distinct values.
C2_BlendedPredicate ==
    Detected =>
        \A key \in Range(SessionKeys) :
            Recorded(key) <=> /\ Len(GroupOf(key)) >= 2
                              /\ Cardinality(LookedUpGrades(key)) >= 2

\* C3 as stated: every member session id of a group found blended maps to
\* that group's own id.
C3_OwnGroupId ==
    Detected =>
        \A key \in Range(SessionKeys) :
            Recorded(key) =>
                \A m \in MembersOf(key) :
                    /\ m \in Keys(blended_class_map)
                    /\ Lookup(blended_class_map, m) = BlendedId(key)

\* C3: after detection has processed all groups, every member session id of
\* a group found blended maps to the id of the last blended group, in
\* ascending session-key order, that has it among its members: the group's
\* own id unless a later blended group has the session id too.
C3_LastGroupId ==
    Detected =>
        LET keys == SessionKeys
            members == [i \in DOMAIN keys |-> MembersOf(keys[i])]
            blended == {i \in DOMAIN keys : Recorded(keys[i])}
            last(m) == CHOOSE i \in blended :
                           /\ m \in members[i]
                           /\ \A j \in blended : m \in members[j] => j <= i
        IN  \A i \in blended :
                \A m \in members[i] :
                    /\ m \in Keys(blended_class_map)
                    /\ Lookup(blended_class_map, m) = BlendedId(keys[last(m)])
                    /\ (\A j \in blended : m \in members[j] => j = i)
                       => Lookup(blended_class_map, m) = BlendedId(keys[i])

\* Detection found two blended groups that share a session id
C3_Witness ==
    /\ Detected
    /\ \E k1, k2 \in Range(SessionKeys) :
          /\ k1 # k2 /\ Recorded(k1) /\ Recorded(k2)
          /\ MembersOf(k1) \cap MembersOf(k2) # {}

\* The rows of the Enrollments output with a role and a class
EnrollRows(role, class_id) ==
    {i \in DOMAIN out["Enrollments"].tbl.rows :
        /\ out["Enrollments"].tbl.rows[i]["Role"] = role
        /\ out["Enrollments"].tbl.rows[i]["Class ID"] = class_id}

\* The schedule and the class_info table of the example: sessions M1 (grade 7)
\* and M2 (grade 8) of teacher T1 in school S1, term 1, day Mon, period 1
ExampleInput ==
    /\ raw["schedule.txt"].rows = BlendedSchedule("7", "8", FALSE)
    /\ Len(raw["classinfo.txt"].rows) = 2
    /\ MembersOf("S1_T1_1__Mon_1") = {"M1", "M2"}

\* C8: on the example the Classes output has exactly one blended class, with
\* Class ID BLENDED_S1_T1_1__Mon_1_<year> and grade range 07/08, the rows of
\* M1 and M2 carry that Class ID in Enrollments, and T1 has exactly one
\* teacher row for it.
C8_BlendedExample ==
    ExampleInput /\ pc > Len(Entities) =>
        /\ {id \in ClassIds("Classes") : id \in Keys(blended_class_metadata)}
              = {BlendedId("S1_T1_1__Mon_1")}
        /\ Lookup(blended_class_metadata, BlendedId("S1_T1_1__Mon_1")).Grade = "07/08"
        /\ \A s \in {"A", "B"} :
              \E i \in EnrollRows("student", BlendedId("S1_T1_1__Mon_1")) :
                  out["Enrollments"].tbl.rows[i]["User ID"] = s
        /\ Cardinality({i \in EnrollRows("teacher", BlendedId("S1_T1_1__Mon_1")) :
               out["Enrollments"].tbl.rows[i]["User ID"] = "T1"}) = 1

-----------------------------------------------------------------------------
(* Runs over demographic tables and the column the Enrollments field map   *)
(* names as the staff id                                                   *)

MaxDemo == 3

DemoRows ==
    {DemoRow("H1", "1", "T1", "A"), DemoRow("H1", "2", "T1", "B"),
     DemoRow(Null, "1", Null, "C"), DemoRow("H1 ", "1", " T1", "D")}

HomeroomSchedules ==
    {<<>>, <<SchedRow("M1", "9", "T1", "A")>>, <<SchedRow("M1", "1", "T1", "A")>>}

InitHomeroom ==
    /\ Fresh
    /\ \E demo \in SeqsUpTo(DemoRows, MaxDemo), schedule \in HomeroomSchedules,
          hg \in {{"01"}, {"01", "02"}}, staff_id_col \in {"teacher id", "homeroom"},
          named \in BOOLEAN :
          /\ raw = Files(StudentsTable({}), Table(SchedCols, schedule),
                         IF named THEN Table(DemoCols, demo)
                         ELSE Without(Table(DemoCols, demo), "teacher name"),
                         Table(InfoCols, <<>>))
          /\ cfg = [BaseCfg EXCEPT !.homeroom_grades = hg,
                                   !.enr_staff_col = staff_id_col]

SpecHomeroom == InitHomeroom /\ [][Next]_vars

\* C6: the HomeroomIndex and the BlendedIndex are written only by the Classes
\* pass: a step of the Students, Staff, Family or Enrollments pass leaves
\* all four of them unchanged.
C6_IndexImmutability ==
    [][pc # Position("Classes") => UNCHANGED index]_vars

\* The student_demographic table has rows, all of school S, homeroom H and
\* teacher T with a grade of the homeroom-grade set, and the mapping names
\* the columns the code defaults to.
HomeroomExample(S, H, T) ==
    /\ raw["demo.txt"].rows # <<>>
    /\ \A i \in DOMAIN raw["demo.txt"].rows :
          /\ raw["demo.txt"].rows[i]["school number"] = S
          /\ raw["demo.txt"].rows[i]["homeroom"] = H
          /\ raw["demo.txt"].rows[i]["teacher id"] = T
          /\ grade_to_ceds(raw["demo.txt"].rows[i]["grade"]) \in cfg.homeroom_grades
    /\ cfg.enr_staff_col = cfg.gc_staff_col

\* C9: for N >= 1 student_demographic rows of one school S, homeroom H and
\* teacher T with a homeroom grade, Classes has exactly one class
\* {S}_{H}_{year}, and Enrollments has a student row of that class for every
\* student and exactly one teacher row of it, with User ID T.
C9_HomeroomExample ==
    HomeroomExample("S1", "H1", "T1") /\ pc > Len(Entities) =>
        /\ Cardinality({i \in DOMAIN out["Classes"].tbl.rows :
               out["Classes"].tbl.rows[i]["Class ID"] = "S1_H1_" \o school_year}) = 1
        /\ \A i \in DOMAIN raw["demo.txt"].rows :
              Cardinality({j \in EnrollRows("student", "S1_H1_" \o school_year) :
                  out["Enrollments"].tbl.rows[j]["User ID"] =
                      raw["demo.txt"].rows[i]["student number"]}) = 1
        /\ \E j \in EnrollRows("teacher", "S1_H1_" \o school_year) :
              /\ out["Enrollments"].tbl.rows[j]["User ID"] = "T1"
              /\ EnrollRows("teacher", "S1_H1_" \o school_year) = {j}

-----------------------------------------------------------------------------
(* Runs over field maps of the generic entities                            *)

MaxFields == 3

FieldPool ==
    {D("User ID", Plain("student number")),
     D("Grade", Column("grade", "grade_to_ceds")),
     D("Missing", Column("nope", "grade_to_ceds")),
     D("EnrollStatus", Plain("status")),
     D("School", Value("S1")),
     D("Class ID", AppendYear("nope")),
     D("Email Address", Format(<<"first name", "last name">>))}

FieldMaps ==
    {fm \in SeqsUpTo(FieldPool, MaxFields) :
        \A i, j \in DOMAIN fm : fm[i].k = fm[j].k => i = j}

InitGeneric ==
    /\ Fresh
    /\ \E fm \in FieldMaps, extra \in {{}, {"enrolment status"}, {"withdraw date"}} :
          /\ raw = Files(StudentsTable(extra),
                         Table(SchedCols, <<SchedRow("M1", "9", "T1", "A")>>),
                         Table(DemoCols, <<DemoRow("H1", "1", "T1", "B")>>),
                         Table(InfoCols, <<>>))
          /\ cfg = [BaseCfg EXCEPT
                       !.homeroom_grades = {"01"},
                       !.field_map = [e \in {"Students", "Staff", "Family"} |-> fm]]

SpecGeneric == InitGeneric /\ [][Next]_vars

GenericEntities == {"Students", "Staff", "Family"}

\* transform returned, or raised, for the entity
Transformed(e) == out[e].status \in {"saved", "empty", "raised"}

\* The working table of the entity's field loop
Working(e) ==
    IF e = "Staff" THEN StaffJoin(PrimaryDF(e), raw, cfg).working ELSE PrimaryDF(e)

\* The entries of the entity's field map that copy a column which the
\* working table lacks
MissingEntries(e) ==
    {i \in DOMAIN cfg.field_map[e] :
        /\ cfg.field_map[e][i].v.kind \in {"plain", "column"}
        /\ cfg.field_map[e][i].v.column \notin Working(e).cols}

\* The field map without its i-th entry
WithoutEntry(fm, i) == SubSeq(fm, 1, i - 1) \o SubSeq(fm, i + 1, Len(fm))

\* The table transform returns for the entity when entry i is not in its
\* field map
ResultWithout(e, i) ==
    TransformGeneric(e, PrimaryDF(e), raw,
        [cfg EXCEPT !.field_map[e] = WithoutEntry(cfg.field_map[e], i)],
        school_year).tbl

\* In the table tbl the target of entry i is null in every row and every
\* other column is as in the table without the entry.
NullFilled(e, i, tbl) ==
    /\ out[e].status # "raised"
    /\ cfg.field_map[e][i].k \in tbl.cols
    /\ \A r \in DOMAIN tbl.rows : tbl.rows[r][cfg.field_map[e][i].k] = Null
    /\ Project(tbl, tbl.cols \ {cfg.field_map[e][i].k}) =
           Project(ResultWithout(e, i), tbl.cols \ {cfg.field_map[e][i].k})

\* C10 as stated: for Students, Staff and Family, a field_map entry whose
\* source column is absent from the working table gives a target column that
\* is null in every row, transform does not raise, and the other target
\* columns are as without the entry.
C10_MissingColumn ==
    \A e \in GenericEntities : Transformed(e) =>
        \A i \in MissingEntries(e) : NullFilled(e, i, out[e].tbl)

\* C10: the same for every such entry whose target the Students block has
\* not already populated (EnrollStatus, and Email Address under a format):
\* the target column is in the result and null in every row, transform does
\* not raise, and the other columns are as without the entry.
C10_MissingColumnNotPopulated ==
    \A e \in GenericEntities : Transformed(e) =>
        \A i \in MissingEntries(e) :
            (e = "Students" =>
                cfg.field_map[e][i].k \notin
                    StudentsBespoke(PrimaryDF(e), cfg.field_map[e]).cols)
            => NullFilled(e, i, out[e].tbl)

\* Students were transformed under a field map that copies a column the
\* file has next to one it lacks, and the rows carry null for the latter.
C10_Witness ==
    /\ out["Students"].status = "saved"
    /\ Keys(cfg.field_map["Students"]) = {"User ID", "Missing", "Grade"}
    /\ out["Students"].tbl.rows # <<>>
    /\ \A r \in DOMAIN out["Students"].tbl.rows :
          /\ out["Students"].tbl.rows[r]["Missing"] = Null
          /\ out["Students"].tbl.rows[r]["User ID"] # Null

-----------------------------------------------------------------------------
(* Runs over field maps whose entries fail while their values are computed *)

MaxFailing == 3

FailingPool ==
    {D("User ID", Plain("student number")),
     D("Grade", Column("grade", "no_such_transform")),
     D("Role", Column("teaching flag", "map_role")),
     D("Email Address", Format(<<"first name", "last name">>)),
     D("Email Address", Format(<<"nope">>)),
     D("Email Address", Format(MalformedFormat))}

FailingMaps ==
    {fm \in SeqsUpTo(FailingPool, MaxFailing) :
        \A i, j \in DOMAIN fm : fm[i].k = fm[j].k => i = j}

InitFailing ==
    /\ Fresh
    /\ \E fm \in FailingMaps, extra \in {{}, {"enrolment status"}, {"withdraw date"}} :
          /\ raw = Files(StudentsTable(extra),
                         Table(SchedCols, <<SchedRow("M1", "9", "T1", "A")>>),
                         Table(DemoCols, <<DemoRow("H1", "1", "T1", "B")>>),
                         Table(InfoCols, <<>>))
          /\ cfg = [BaseCfg EXCEPT
                       !.homeroom_grades = {"01"},
                       !.field_map = [e \in {"Students", "Staff", "Family"} |-> fm]]

SpecFailing == InitFailing /\ [][Next]_vars

\* The entries of the entity's field map whose computation raises: a
\* transform name the transformer does not have, applied to a column of the
\* working table, and for Students an email format that cannot be parsed.
FailingEntries(e) ==
    {i \in DOMAIN cfg.field_map[e] :
        \/ /\ cfg.field_map[e][i].v.kind = "column"
           /\ cfg.field_map[e][i].v.column \in Working(e).cols
           /\ cfg.field_map[e][i].v.transform \notin Transforms \cup {""}
        \/ /\ e = "Students"
           /\ cfg.field_map[e][i].v.kind = "format"
           /\ cfg.field_map[e][i].v.format = MalformedFormat}

\* C11: an exception raised while one target field is computed (an unknown
\* transform name, or a malformed email format for Students) is caught for
\* that field: transform does not raise and the field is null in every row
\* of the table it returns.
C11_FieldFailureIsolation ==
    \A e \in GenericEntities : Transformed(e) =>
        \A i \in FailingEntries(e) :
            /\ out[e].status # "raised"
            /\ cfg.field_map[e][i].k \in out[e].tbl.cols
            /\ \A r \in DOMAIN out[e].tbl.rows :
                  out[e].tbl.rows[r][cfg.field_map[e][i].k] = Null

-----------------------------------------------------------------------------
(* Runs over source configurations: each role listed with a loaded table,  *)
(* listed with a file that gave no table, or not listed                    *)

MaxRoles == 5

RoleNames ==
    <<"student_schedule", "student_demographic", "course_info", "staff_info",
      "class_info">>

RoleStates == {"loaded", "empty", "absent"}

\* The first n roles of ClassSources after `shift` rotations, each as its
\* state says
RECURSIVE Listed(_, _, _)
Listed(roles, state, files) ==
    IF roles = <<>> THEN <<>>
    ELSE (IF state[Head(roles)] = "absent" THEN <<>>
          ELSE IF state[Head(roles)] = "empty" THEN <<D(Head(roles), "none.txt")>>
          ELSE <<D(Head(roles), files[Head(roles)])>>)
         \o Listed(Tail(roles), state, files)

Rotated(s, shift) == SubSeq(s, shift + 1, Len(s)) \o SubSeq(s, 1, shift)

RoleFiles == [r \in Range(RoleNames) |-> Lookup(ClassSources, r)]

StaffInfoTable ==
    Table({"teacher id", "last name"},
          <<("teacher id" :> "T1") @@ ("last name" :> "Tan")>>)

RoleData ==
    [Files(StudentsTable({}),
           Table(SchedCols, <<SchedRow("M1", "9", "T1", "A"),
                              SchedRow("M2", "1", "T1", "B")>>),
           Table(DemoCols, <<DemoRow("H1", "1", "T1", "B")>>),
           Table(InfoCols, <<InfoRow("M1", "T1", "1"), InfoRow("M2", "T1", "1")>>))
        EXCEPT !["staff_info.txt"] = StaffInfoTable]
    @@ ("none.txt" :> EmptyDF)

InitRoles ==
    /\ Fresh
    /\ \E state \in [Range(RoleNames) -> RoleStates], shift \in 0..(MaxRoles - 1),
          hg \in {{"01"}, {}} :
          /\ raw = RoleData
          /\ cfg = [BaseCfg EXCEPT
                       !.homeroom_grades = hg,
                       !.src["Classes"] =
                           Dict(Listed(Rotated(RoleNames, shift), state, RoleFiles)),
                       !.src["Enrollments"] =
                           Dict(Listed(Rotated(SubSeq(RoleNames, 1, 2), shift % 2),
                                       state, RoleFiles))]

SpecRoles == InitRoles /\ [][Next]_vars

\* The table the entity's source configuration gives for the role
RoleTable(e, role) == get_source_file(raw, cfg.src[e], role)

\* C12: whatever roles of Classes and Enrollments are not listed or give no
\* table, transform returns a table for the entity and does not raise.
C12_MissingRoleDegrades ==
    \A e \in {"Classes", "Enrollments"} :
        /\ out[e].status # "raised"
        /\ pc <= Len(Entities) + 1

\* Classes and Enrollments were both transformed although a role of each
\* gave no table.
C12_Witness ==
    /\ \A e \in {"Classes", "Enrollments"} : out[e].status \in {"saved", "empty"}
    /\ IsEmpty(RoleTable("Classes", "course_info"))
    /\ IsEmpty(RoleTable("Classes", "staff_info"))
    /\ IsEmpty(RoleTable("Enrollments", "student_demographic"))
    /\ out["Classes"].status = "saved"

\* C13: when student_schedule gives no table, the Classes pass returns an
\* empty table, whether or not student_demographic has homeroom rows.
C13_ClassesEmptyWithoutSchedule ==
    /\ Transformed("Classes")
    /\ IsEmpty(RoleTable("Classes", "student_schedule"))
    => IsEmpty(out["Classes"].tbl)

-----------------------------------------------------------------------------
(* Runs over field maps of Classes and Enrollments with a further key      *)

MaxColumns == 2

\* Key lists of a Classes field map: the six columns, and one more
ClassesKeys ==
    {BaseCfg.classes_fields, Append(BaseCfg.classes_fields, "Term")}

\* Key lists of an Enrollments field map: the four columns, and one more
EnrollmentsKeys ==
    {BaseCfg.enrollments_fields, Append(BaseCfg.enrollments_fields, "Term")}

InitColumns ==
    /\ Fresh
    /\ \E schedule \in SeqsUpTo(SchedRows, MaxColumns), demo \in DemoTables,
          hg \in {{}, {"01", "02"}}, ck \in ClassesKeys, ek \in EnrollmentsKeys :
          /\ raw = Files(StudentsTable({}), Table(SchedCols, schedule),
                         Table(DemoCols, demo), Table(InfoCols, <<>>))
          /\ cfg = [BaseCfg EXCEPT !.homeroom_grades = hg, !.classes_fields = ck,
                                   !.enrollments_fields = ek]

SpecColumns == InitColumns /\ [][Next]_vars

\* C14: every non-empty table that main hands to the loader for an entity has
\* every key of the entity's field map as a column, so that the loader's
\* reordering df[field_order] succeeds.
C14_OutputColumns ==
    \A e \in Range(Entities) :
        out[e].status \in {"saved", "unsaved"}
            => Range(field_order(e)) \subseteq out[e].tbl.cols

-----------------------------------------------------------------------------
(* Runs over course titles and teacher names of many lengths               *)

MaxWords == 2

\* Course titles and teacher names: short ones, and texts of up to MaxWords
\* words around the limit of 100 characters
LongTexts == {Text(p) : p \in {q \in TextPatterns : Len(q) <= MaxWords}}

NameTitles == {"Math"} \cup LongTexts

TeacherNames == {"Ms T", Text(<<90>>), Text(<<97>>), Text(<<40, 60>>)}

NameDemos ==
    {<<>>} \cup
    {<<[DemoRow("H1", "1", "T1", "A") EXCEPT !["teacher name"] = tn]>> :
        tn \in TeacherNames}

InitNames ==
    /\ Fresh
    /\ \E title \in NameTitles, demo \in NameDemos,
          staff_info \in {EmptyDF, StaffInfoTable} :
          /\ raw = [Files(StudentsTable({}),
                          Table(SchedCols, <<SchedRow("M1", "9", "T1", "A")>>),
                          Table(DemoCols, demo), Table(InfoCols, <<>>))
                    EXCEPT !["staff_info.txt"] = staff_info,
                           !["course.txt"] =
                               Table(CourseTable.cols,
                                     <<[CourseTable.rows[1] EXCEPT !["title"] = title]>>)]
          /\ cfg = [BaseCfg EXCEPT !.homeroom_grades = {"01"}]

SpecNames == InitNames /\ [][Next]_vars

\* The Names of the saved classes with the given Class ID
NamesOf(class_id) ==
    {out["Classes"].tbl.rows[i]["Name"] :
        i \in {j \in DOMAIN out["Classes"].tbl.rows :
                  out["Classes"].tbl.rows[j]["Class ID"] = class_id}}

\* The composed name of the subject class of the run: the last name of its
\* teacher where staff_info gives one, the course title, the school year
ComposedName ==
    JoinChars((IF IsEmpty(raw["staff_info.txt"]) THEN <<>> ELSE <<Chars("Tan")>>)
              \o <<Chars(raw["course.txt"].rows[1]["title"]), Chars(school_year)>>,
              <<" ">>)

\* name is full, cut before position cut and closed with the mark
CutAt(name, full, cut, mark) == name = SubSeq(full, 1, cut - 1) \o mark

\* The truncation rule with a given ellipsis mark: short names unchanged; long
\* names cut at the last space within the first 97 characters, or after 97
\* characters if there is none, and closed with the mark; never over 100
Truncated(name, full, mark) ==
    LET spaces == {i \in 1..(MaxNameLen - 3) : full[i] = " "}
    IN  /\ Len(name) <= MaxNameLen
        /\ Len(full) <= MaxNameLen => name = full
        /\ Len(full) > MaxNameLen =>
               IF spaces = {} THEN CutAt(name, full, MaxNameLen - 2, mark)
               ELSE \E cut \in spaces :
                        /\ CutAt(name, full, cut, mark)
                        /\ \A i \in spaces : i <= cut

\* The single character HORIZONTAL ELLIPSIS, named by its code point: a string
\* of the module holds ASCII only
Ellipsis == "U+2026"

SubjectSaved == out["Classes"].status = "saved" /\ NamesOf("M1_2024") # {}

\* C17: _truncate_name returns a name of at most 100 characters; a name of at
\* most 100 characters unchanged; a longer one cut at a space, or after its
\* first 97 characters if these hold no space, and ending with the ellipsis
\* character.
C17_TruncateName ==
    SubjectSaved => \A name \in NamesOf("M1_2024") :
                        Truncated(name, ComposedName, <<Ellipsis>>)

\* C17 as the code has it: the same rule, with three periods as the ellipsis
C17_TruncateNamePeriods ==
    SubjectSaved => \A name \in NamesOf("M1_2024") :
                        Truncated(name, ComposedName, <<".", ".", ".">>)

\* A composed name over the limit with a space in its first 97 characters
C17_Witness ==
    /\ SubjectSaved
    /\ Len(ComposedName) > MaxNameLen
    /\ \E i \in 1..(MaxNameLen - 3) : ComposedName[i] = " "

\* C18: every Name of the Classes output, of homeroom classes and of subject
\* classes alike, has at most 100 characters.
C18_AllNamesTruncated ==
    out["Classes"].status \in {"saved", "unsaved"}
        => \A i \in DOMAIN out["Classes"].tbl.rows :
               Len(out["Classes"].tbl.rows[i]["Name"]) <= MaxNameLen

-----------------------------------------------------------------------------
(* Runs over the shapes of a source_files value                            *)

MaxEntries == 2

\* Items of a list of {role, file} records: complete ones, one of them giving
\* a role a second time, one without file and one without role
EntryPool ==
    {Entry({"role", "file"}, "student_schedule", "schedule.txt"),
     Entry({"role", "file"}, "student_demographic", "demo.txt"),
     Entry({"role", "file"}, "student_schedule", "none.txt"),
     Entry({"role"}, "course_info", ""),
     Entry({"file"}, "", "course.txt")}

\* A legacy list of filenames, longer than the four positional roles
LegacyNames ==
    <<Name("schedule.txt"), Name("course.txt"), Name("staff_info.txt"),
      Name("demo.txt"), Name("classinfo.txt")>>

\* The source_files values of Classes
ShapeConfigs ==
    {Dict(ClassSources), Scalar("schedule.txt"),
     List(<<Name("schedule.txt"),
            Entry({"role", "file"}, "student_demographic", "demo.txt")>>),
     List(<<Entry({"role", "file"}, "student_schedule", "schedule.txt"),
            Name("demo.txt")>>)}
    \cup {List(items) : items \in SeqsUpTo(EntryPool, MaxEntries)}
    \cup {List(SubSeq(LegacyNames, 1, n)) : n \in 0..Len(LegacyNames)}

\* The source_files values of Enrollments
EnrollmentShapes ==
    {Dict(EnrollSources), List(SubSeq(LegacyNames, 1, 4)),
     List(<<Entry({"role", "file"}, "student_demographic", "demo.txt"),
            Entry({"role", "file"}, "student_schedule", "schedule.txt")>>)}

InitShapes ==
    /\ Fresh
    /\ \E classes \in ShapeConfigs, enrollments \in EnrollmentShapes,
          hg \in {{"01"}, {}} :
          /\ raw = RoleData
          /\ cfg = [BaseCfg EXCEPT !.homeroom_grades = hg,
                                   !.src["Classes"] = classes,
                                   !.src["Enrollments"] = enrollments]

SpecShapes == InitShapes /\ [][Next]_vars

\* The complete entries of a list of records
Complete(items) == SelectSeq(items, LAMBDA item : {"role", "file"} \subseteq item.keys)

\* The mapping given by the complete entries: its roles, each once, with the
\* file of the last entry of the role
MappingOf(normalized, items) ==
    /\ Keys(normalized) = {item.role : item \in Range(Complete(items))}
    /\ Len(normalized) = Cardinality(Keys(normalized))
    /\ \A i \in DOMAIN Complete(items) :
           (\A j \in DOMAIN Complete(items) :
                Complete(items)[j].role = Complete(items)[i].role => j <= i)
               => Lookup(normalized, Complete(items)[i].role) = Complete(items)[i].file

\* The first four filenames under the four positional roles, in order
Positional(normalized, items) ==
    LET fixed == <<"student_schedule", "course_info", "staff_info",
                   "student_demographic">>
    IN  /\ Len(normalized) = IF Len(items) < 4 THEN Len(items) ELSE 4
        /\ \A i \in DOMAIN normalized :
               normalized[i] = [k |-> fixed[i], v |-> items[i].file]

Normalized(source_config, normalized) ==
    IF source_config.shape = "dict" THEN normalized = source_config.items
    ELSE IF source_config.shape = "list" /\
            \A item \in Range(source_config.items) : item.kind = "dict"
    THEN MappingOf(normalized, source_config.items)
    ELSE IF source_config.shape = "list" /\
            \A item \in Range(source_config.items) : item.kind = "str"
    THEN Positional(normalized, source_config.items)
    ELSE normalized = <<>>

\* C15: normalize_source_config returns a role->filename mapping unchanged,
\* turns a list of {role, file} records into the mapping of its complete
\* entries, assigns a list of filenames in order to student_schedule,
\* course_info, staff_info, student_demographic and ignores the filenames
\* after the fourth, and gives the empty mapping for any other shape.
C15_NormalizeSourceConfig ==
    \A e \in Range(Entities) :
        Normalized(cfg.src[e], normalize_source_config(cfg.src[e]))

\* transform has read the roles of a list of records with an incomplete entry,
\* and of a list of five filenames
C15_Witness ==
    /\ "Classes" \in Range(calls)
    /\ "Enrollments" \in Range(calls)
    /\ cfg.src["Classes"].shape = "list"
    /\ \E item \in Range(cfg.src["Classes"].items) :
           item.kind = "dict" /\ item.keys # {"role", "file"}
    /\ cfg.src["Enrollments"] = List(SubSeq(LegacyNames, 1, 4))

-----------------------------------------------------------------------------
(* Runs over the grades of the students file                               *)

MaxGrades == 2

\* Grade cells: labels of the table as they stand, padded, in lower case,
\* values that are no label, the empty string, the number 0 and null
GradeInputs ==
    {"1", "01", " 7", "12 ", "13", "k", " k ", "kf", "pre-k", "PRE-K", "Other",
     "UG", "Grade 7", "14", "", " ", IntZero, Null}

GradeRows(grades) ==
    [i \in DOMAIN grades |->
        [StudentRows[((i - 1) % Len(StudentRows)) + 1] EXCEPT !["grade"] = grades[i]]]

InitGrades ==
    /\ Fresh
    /\ \E grades \in SeqsUpTo(GradeInputs, MaxGrades) :
          /\ raw = [Files(StudentsTable({}),
                          Table(SchedCols, <<SchedRow("M1", "9", "T1", "A")>>),
                          Table(DemoCols, <<DemoRow("H1", "1", "T1", "B")>>),
                          Table(InfoCols, <<>>))
                    EXCEPT !["students.txt"] =
                               Project(Table(StudentCols \cup {"enrolment status",
                                                               "withdraw date"},
                                             GradeRows(grades)),
                                       StudentCols)]
          /\ cfg = [BaseCfg EXCEPT
                       !.homeroom_grades = {"01"},
                       !.field_map["Students"] =
                           <<D("User ID", Plain("student number")),
                             D("Grade", Column("grade", "grade_to_ceds"))>>]

SpecGrades == InitGrades /\ [][Next]_vars

\* The code of each grade cell: the code of the label that the cell is once
\* trimmed and put in upper case, and UG for a cell that is then no label
GradeCodes ==
    ("1" :> "01") @@ ("01" :> "01") @@ (" 7" :> "07") @@ ("12 " :> "12") @@
    ("13" :> "13") @@ ("k" :> "KG") @@ (" k " :> "KG") @@ ("kf" :> "KG") @@
    ("pre-k" :> "PK") @@ ("PRE-K" :> "PK") @@ ("Other" :> "Other") @@
    ("UG" :> "UG") @@ ("Grade 7" :> "UG") @@ ("14" :> "UG") @@ ("" :> "UG") @@
    (" " :> "UG") @@ (IntZero :> "UG") @@ (Null :> "UG")

\* C16: grade_to_ceds is total and deterministic: an input that, trimmed and
\* in upper case, is a label of the table gives the code of the label; every
\* other input, the empty one and null among them, gives UG.
C16_GradeToCedsTotal ==
    "Students" \in Range(calls) =>
        /\ out["Students"].status = "saved"
        /\ DOMAIN out["Students"].tbl.rows = DOMAIN raw["students.txt"].rows
        /\ \A i \in DOMAIN raw["students.txt"].rows :
               out["Students"].tbl.rows[i]["Grade"] =
                   GradeCodes[raw["students.txt"].rows[i]["grade"]]

\* Students transformed from a padded lower-case label and a null grade
C16_Witness ==
    /\ out["Students"].status = "saved"
    /\ \E i, j \in DOMAIN raw["students.txt"].rows :
           /\ raw["students.txt"].rows[i]["grade"] = " k "
           /\ out["Students"].tbl.rows[i]["Grade"] = "KG"
           /\ raw["students.txt"].rows[j]["grade"] = Null
           /\ out["Students"].tbl.rows[j]["Grade"] = "UG"

-----------------------------------------------------------------------------
(* Teacher rows of the Enrollments output, under Spec                      *)

\* The teacher ids that the rows of a source table give: neither null nor
\* empty once trimmed
PresentIds(df, col) ==
    IF col \in df.cols
    THEN {StrStrip(df.rows[i][col]) :
             i \in {j \in DOMAIN df.rows :
                       notna(df.rows[j][col]) /\ StrStrip(df.rows[j][col]) # ""}}
    ELSE {}

\* C19: a teacher-role row of a homeroom class or of a non-blended subject
\* class carries a teacher id that is present in a demographic or schedule
\* row; a null or empty teacher id gives no teacher-role row.
C19_NoTeacherRowWithoutId ==
    \A i \in DOMAIN out["Enrollments"].tbl.rows :
        LET row == out["Enrollments"].tbl.rows[i]
        IN  row["Role"] = "teacher" /\ row["Class ID"] \notin Keys(blended_teacher_map)
                => row["User ID"] \in
                       PresentIds(raw["schedule.txt"], cfg.enr_staff_col) \cup
                       PresentIds(raw["demo.txt"], cfg.enr_staff_col)

-----------------------------------------------------------------------------
(* The rosters of the blended classes, under Spec                          *)

\* The teacher ids of the class_info rows whose session id is a member
\* session id of the group of the key
SharingTeachers(key) ==
    {WorkingInfo[i]["teacher id"] :
        i \in {j \in DOMAIN WorkingInfo :
                  WorkingInfo[j]["master timetable id"] \in MembersOf(key)}}

\* C20: the roster recorded for a blended class id holds the teacher ids of
\* all class_info rows whose session id is a member session id of the group,
\* rows of another session key among them, and each teacher id once.
C20_BlendedRoster ==
    Detected =>
        \A key \in Range(SessionKeys) :
            Recorded(key) =>
                /\ BlendedId(key) \in Keys(blended_teacher_map)
                /\ Range(Lookup(blended_teacher_map, BlendedId(key)))
                       = SharingTeachers(key)
                /\ Len(Lookup(blended_teacher_map, BlendedId(key)))
                       = Cardinality(SharingTeachers(key))

\* A blended class whose roster has a teacher of a row with another session
\* key than the group's
C20_Witness ==
    /\ Detected
    /\ \E key \in Range(SessionKeys) :
           /\ Recorded(key)
           /\ \E t \in Range(Lookup(blended_teacher_map, BlendedId(key))) :
                  \A i \in DOMAIN GroupOf(key) : GroupOf(key)[i]["teacher id"] # t

-----------------------------------------------------------------------------
(* The subject classes of the Classes output, under Spec                   *)

\* The rows of the Classes output that subject-class synthesis produced: the
\* rows of no homeroom class
SubjectRows ==
    {i \in DOMAIN out["Classes"].tbl.rows :
        \A j \in DOMAIN homeroom_classes_df.rows :
            homeroom_classes_df.rows[j]["Class ID"]
                # out["Classes"].tbl.rows[i]["Class ID"]}

\* The schedule rows whose normalized grade is no homeroom grade
SubjectSchedule ==
    {i \in DOMAIN raw["schedule.txt"].rows :
        grade_to_ceds(raw["schedule.txt"].rows[i]["grade"]) \notin cfg.homeroom_grades}

\* The session id of a schedule row, as text
SessionId(i) == StrStrip(raw["schedule.txt"].rows[i]["master timetable id"])

\* C21: a Classes output row of subject-class synthesis whose Class ID is a key
\* of the blended metadata has the Name of the metadata and the empty Grade;
\* any other has the normalized grade of a schedule row and that row's
\* session id with the year for its Class ID.
C21_SubjectFields ==
    out["Classes"].status = "saved" =>
        \A i \in SubjectRows :
            LET row == out["Classes"].tbl.rows[i]
            IN  IF row["Class ID"] \in Keys(blended_class_metadata)
                THEN /\ row["Name"] =
                          Lookup(blended_class_metadata, row["Class ID"]).Name
                     /\ row["Grade"] = ""
                ELSE \E s \in SubjectSchedule :
                         /\ row["Class ID"] = SessionId(s) \o "_" \o school_year
                         /\ row["Grade"] =
                                grade_to_ceds(raw["schedule.txt"].rows[s]["grade"])

\* A Classes output with a blended class and a subject class that is not
C21_Witness ==
    /\ out["Classes"].status = "saved"
    /\ \E i, j \in SubjectRows :
           /\ out["Classes"].tbl.rows[i]["Class ID"] \in Keys(blended_class_metadata)
           /\ out["Classes"].tbl.rows[j]["Class ID"] \notin Keys(blended_class_metadata)

-----------------------------------------------------------------------------
(* Blended sessions in the Classes output, under SpecBlended               *)

\* The rows of the Classes output with the Class ID
ClassRows(class_id) ==
    {i \in DOMAIN out["Classes"].tbl.rows :
        out["Classes"].tbl.rows[i]["Class ID"] = class_id}

\* No session id of the BlendedIndex has a record of its own
NoStandalone ==
    \A m \in Keys(blended_class_map) :
        ClassRows(m \o "_" \o school_year) = {}

\* The session id has a schedule row that subject-class synthesis reads
Scheduled(m) == \E s \in SubjectSchedule : SessionId(s) = m

-----------------------------------------------------------------------------
(* Runs over "school year" columns, year sources and dates                 *)

MaxYearCells == 2

\* Texts of a "school year" cell
YearCells ==
    {NoText, <<"2", "0", "2", "4">>,
     <<"2", "0", "2", "5", "-", "2", "0", "2", "6">>,
     <<"2", "0", "2", "4", ".", "0">>, <<"a", "b", "c", "d">>,
     <<"2", "0", ".", "4">>}

\* A table with the column "school year" of the cells, or without it
WithYears(df, cells) ==
    IF Len(cells) # Len(df.rows) THEN df
    ELSE [cols |-> df.cols \cup {"school year"},
          rows |-> [i \in DOMAIN df.rows |->
                       df.rows[i] @@ ("school year" :> cells[i])]]

\* global_config.school_year_sources
YearSources ==
    {Dict(<<>>),
     Dict(<<D("student_schedule", "schedule.txt"),
            D("student_demographic", "demo.txt")>>),
     Dict(<<D("student_demographic", "demo.txt"),
            D("student_schedule", "schedule.txt")>>),
     Dict(<<D("students", "missing.txt"), D("student_schedule", "schedule.txt")>>),
     List(<<Name("demo.txt"), Name("schedule.txt")>>)}

\* datetime.now(): year and month
Clocks == {[year |-> 2024, month |-> 7], [year |-> 2024, month |-> 8],
           [year |-> 2024, month |-> 12], [year |-> 2025, month |-> 1]}

InitYear ==
    /\ school_year = "0"
    /\ homeroom_classes_df = EmptyDF
    /\ blended_class_map = <<>>
    /\ blended_class_metadata = <<>>
    /\ blended_teacher_map = <<>>
    /\ pc = 0
    /\ out = [e \in Range(Entities) |-> [status |-> "pending", tbl |-> EmptyDF]]
    /\ calls = <<>>
    /\ now \in Clocks
    /\ \E sched \in SeqsUpTo(YearCells, MaxYearCells),
          demo \in SeqsUpTo(YearCells, 1), sources \in YearSources :
          /\ raw = Files(StudentsTable({}),
                         WithYears(Table(SchedCols, <<SchedRow("M1", "9", Null, "A"),
                                                      SchedRow("M2", "1", "T1", "B")>>),
                                   sched),
                         WithYears(Table(DemoCols, <<DemoRow("H1", "1", "T1", "B")>>),
                                   demo),
                         Table(InfoCols, <<>>))
          /\ cfg = [BaseCfg EXCEPT !.homeroom_grades = {"01"},
                                   !.school_year_sources = sources]

SpecYear == InitYear /\ [][NextMain]_vars

\* The integer each text of the model gives when its leading 4 characters
\* are parsed: 0 stands for a text whose leading 4 characters do not parse
ParsedYear ==
    (<<"2", "0", "2", "4">> :> 2024) @@
    (<<"2", "0", "2", "5", "-", "2", "0", "2", "6">> :> 2025) @@
    (<<"2", "0", "2", "4", ".", "0">> :> 2024) @@
    (<<"a", "b", "c", "d">> :> 0) @@ (<<"2", "0", ".", "4">> :> 0)

YearTexts == (2023 :> "2023") @@ (2024 :> "2024") @@ (2025 :> "2025")

\* The files of the configured roles, in configuration order
YearFiles ==
    LET configured == normalize_source_config(cfg.school_year_sources)
    IN  [i \in DOMAIN configured |-> configured[i].v]

\* The non-null "school year" values of a file: none for a file that is not
\* loaded or has no such column
YearValues(file) ==
    IF file \in DOMAIN raw /\ "school year" \in raw[file].cols
    THEN SelectSeq([i \in DOMAIN raw[file].rows |-> raw[file].rows[i]["school year"]],
                   LAMBDA v : v # NoText)
    ELSE <<>>

\* The role's first non-null value parses
YearFound(file) == YearValues(file) # <<>> /\ ParsedYear[YearValues(file)[1]] # 0

\* C23: determine_school_year returns the integer parsed from the leading 4
\* characters of the first non-null "school year" value of the first
\* configured role for which the parse succeeds, skipping a role whose table
\* is missing, lacks the column, has no non-null value or whose first value
\* does not parse; with no such role it returns the current year from August
\* on and the previous year before.
C23_DetermineSchoolYear ==
    pc >= 1 =>
        IF \E i \in DOMAIN YearFiles : YearFound(YearFiles[i])
        THEN \E i \in DOMAIN YearFiles :
                 /\ YearFound(YearFiles[i])
                 /\ \A j \in 1..(i - 1) : ~YearFound(YearFiles[j])
                 /\ school_year = YearTexts[ParsedYear[YearValues(YearFiles[i])[1]]]
        ELSE school_year = YearTexts[IF now.month >= 8 THEN now.year
                                     ELSE now.year - 1]

\* The year of the second role, the first value of the first role not parsing
C23_Witness ==
    /\ pc >= 1
    /\ Len(YearFiles) = 2
    /\ YearValues(YearFiles[1]) # <<>>
    /\ ~YearFound(YearFiles[1])
    /\ YearFound(YearFiles[2])
    /\ school_year = "2025"

\* C24: the teacher-id column name the Classes pass uses for the
\* HomeroomIndex and the blended roster (gc_staff_col, read from
\* global_config.mappings.Enrollments at lines 377-379) is the staff_id_col
\* of the Enrollments field map (enr_staff_col, lines 613-615), the name the
\* Enrollments pass uses.
C24_SameColumnNames ==
    "Classes" \in Range(calls) => cfg.gc_staff_col = cfg.enr_staff_col

-----------------------------------------------------------------------------
(* Runs over class_info tables that list two sessions in two slots         *)

MaxSlots == 4

\* Sessions M1 and M2 in period 1 and in period 2
SlotRows ==
    {InfoRow("M1", "T1", "1"), InfoRow("M2", "T1", "1"),
     InfoRow("M1", "T1", "2"), InfoRow("M2", "T1", "2")}

InitSlots ==
    /\ Fresh
    /\ \E info \in SeqsUpTo(SlotRows, MaxSlots), g2 \in {"7", "8"} :
          /\ raw = Files(StudentsTable({}),
                         Table(SchedCols, BlendedSchedule("7", g2, FALSE)),
                         Table(DemoCols, <<>>), Table(InfoCols, info))
          /\ cfg = BaseCfg

SpecSlots == InitSlots /\ [][Next]_vars

\* The blended ids the sessionId -> blendedClassId map points to
MappedIds == {blended_class_map[i].v : i \in DOMAIN blended_class_map}

\* C26: after a Classes pass that returned, the blended ids with a teacher
\* roster, the blended ids with metadata and the values of the sessionId ->
\* blendedClassId map are the same set.
C26_BlendedIndexConsistent ==
    out["Classes"].status \in {"saved", "empty", "unsaved"} =>
        /\ Keys(blended_teacher_map) = Keys(blended_class_metadata)
        /\ Keys(blended_teacher_map) = MappedIds

\* The Class ID of the subject enrollment of a session: its BlendedIndex
\* entry, else the session id with the year
EnrolledClassId(m) ==
    IF m \in Keys(blended_class_map) THEN Lookup(blended_class_map, m)
    ELSE m \o "_" \o school_year

\* C27: when the schedule has the configured student-id column, every
\* schedule row whose normalized grade is no homeroom grade has a
\* student-role row in the Enrollments output, with the row's student id for
\* User ID and, for Class ID, the BlendedIndex entry of the row's session id
\* if there is one, else "{sessionId}_{year}".
C27_SubjectEnrollmentsComplete ==
    (/\ out["Enrollments"].status \in {"saved", "empty", "unsaved"}
     /\ cfg.enr_student_col \in raw["schedule.txt"].cols) =>
        \A s \in SubjectSchedule :
            \E i \in EnrollRows("student", EnrolledClassId(SessionId(s))) :
                out["Enrollments"].tbl.rows[i]["User ID"]
                    = raw["schedule.txt"].rows[s][cfg.enr_student_col]

\* Enrollments saved with a subject row of a blended session and one of a
\* session that is not blended
C27_Witness ==
    /\ out["Enrollments"].status = "saved"
    /\ \E s1, s2 \in SubjectSchedule :
           /\ SessionId(s1) \in Keys(blended_class_map)
           /\ SessionId(s2) \notin Keys(blended_class_map)
           /\ EnrollRows("student", EnrolledClassId(SessionId(s1))) # {}
           /\ EnrollRows("student", EnrolledClassId(SessionId(s2))) # {}

\* The student_demographic rows whose normalized grade is a homeroom grade
HomeroomStudents ==
    {i \in DOMAIN raw["demo.txt"].rows :
        grade_to_ceds(raw["demo.txt"].rows[i]["grade"]) \in cfg.homeroom_grades}

\* "{school}_{homeroom or UnassignedHomeroom}_{year}" of a demographic row
HomeroomClassId(row) ==
    Str(row["school number"]) \o "_" \o
    (IF row["homeroom"] = Null THEN "UnassignedHomeroom" ELSE row["homeroom"])
    \o "_" \o school_year

====
